---- MODULE Spec2Model ----
(***************************************************************************)
(* Verification model of the LookML formatter (src/src/formatter.ts).      *)
(*                                                                         *)
(* Text representation.  A document is a sequence of lines.  A line is a   *)
(* record [ind, toks]: ind is the number of leading blanks of the line and *)
(* toks is its trimmed content, as the sequence of its lexical pieces:     *)
(* a maximal run of [A-Za-z0-9_] is one token (a "word"), a blank is the   *)
(* token " ", and every other piece is one of the punctuation tokens of    *)
(* NonWordToks.  Every string the formatter handles has exactly one such   *)
(* tokenisation, so string equality is equality of token sequences, and    *)
(* the regular expressions of the source are evaluated on tokens.          *)
(***************************************************************************)
EXTENDS Integers, Sequences, FiniteSets, TLC

VARIABLES doc, prev, cfg, runs, edits, lint, linter

vars == <<doc, prev, cfg, runs, edits, lint, linter>>

(***************************************************************************)
(* Bounds of the model.                                                    *)
(***************************************************************************)
MaxRuns == 3
MaxItems == 1
MaxFields == 2
MaxRules == 2
MaxPending == 2
IndentSize == 2

(***************************************************************************)
(* Tokens.                                                                 *)
(***************************************************************************)
SP == " "

NonWordToks ==
    {" ", ":", "{", "}", ";;", "#", "-----", "${", "{%", "%}", "{{", "}}",
     ".", ",", "<", ">", "=", "!", "+", "(", ")", "*", "\n", "\""}

IsWord(t) == t \notin NonWordToks

\* the tokens that contain the character "{"
HasBraceChar(t) == t \in {"{", "${", "{%", "{{"}

\* the tokens whose last character is "{"
EndsInBrace(t) == t \in {"{", "${", "{{"}

OpToks == {"<", ">", "=", "!"}

\* Upper-case spelling (String.prototype.toUpperCase, the "i" flag of RegExp)
\* of the words of the input vocabulary that spell an SQL keyword.
LowerToUpper ==
    {<<"select", "SELECT">>, <<"from", "FROM">>, <<"sum", "SUM">>,
     <<"count", "COUNT">>, <<"End", "END">>}

upperOf(t, spellings) ==
    IF spellings = {} THEN t ELSE (CHOOSE p \in spellings : TRUE)[2]

toUpperCase(t) == upperOf(t, {p \in LowerToUpper : p[1] = t})

(***************************************************************************)
(* String helpers on token sequences.                                      *)
(***************************************************************************)
Last(s) == s[Len(s)]

\* the token at index k, "" outside the sequence
tokAt(s, k) == IF k \in 1..Len(s) THEN s[k] ELSE ""

\* the least element of a set of indices, 0 if it is empty
least(S) == IF S = {} THEN 0 ELSE CHOOSE i \in S : \A j \in S : i <= j

RECURSIVE trimStart(_)
trimStart(s) ==
    IF s # <<>> /\ Head(s) = SP THEN trimStart(Tail(s)) ELSE s

RECURSIVE trimEnd(_)
trimEnd(s) ==
    IF s # <<>> /\ Last(s) = SP THEN trimEnd(SubSeq(s, 1, Len(s) - 1)) ELSE s

trim(s) == trimEnd(trimStart(s))

\* the concatenation of a sequence of sequences
RECURSIVE concat(_)
concat(ss) == IF ss = <<>> THEN <<>> ELSE Head(ss) \o concat(Tail(ss))

\* index of the first token t of s, 0 if none
IndexOfTok(s, t) == least({i \in 1..Len(s) : s[i] = t})

includes(s, t) == \E i \in 1..Len(s) : s[i] = t

\* first index after i that does not hold a blank
RECURSIVE SkipBlanks(_, _)
SkipBlanks(s, i) ==
    IF i < Len(s) /\ s[i + 1] = SP THEN SkipBlanks(s, i + 1) ELSE i + 1

\* the token after the blanks that follow token i, "" if no blank follows
nextWord(s, i) ==
    IF tokAt(s, i + 1) = SP THEN tokAt(s, SkipBlanks(s, i)) ELSE ""

\* token i and the word after it, upper-cased
upperWords(s, i) ==
    [j \in 1..2 |-> toUpperCase(IF j = 1 THEN tokAt(s, i) ELSE nextWord(s, i))]

\* indentString.repeat(n) + text
Indented(n, toks) == [ind |-> n * IndentSize, toks |-> toks]

EmptyLine == [ind |-> 0, toks |-> <<>>]

(***************************************************************************)
(* Line classification shared by the three scanners.                       *)
(***************************************************************************)
\* trimmedLine.match(/:\s*\{\s*$/) || trimmedLine.endsWith('{')
isBlockStart(t) == t # <<>> /\ EndsInBrace(Last(t))

\* trimmedLine === '}' || trimmedLine === '} ;;'
isBlockEnd(t) == t = <<"}">> \/ t = <<"}", SP, ";;">>

\* trimmedLine.startsWith('#')
isComment(t) == t # <<>> /\ Head(t) \in {"#"}

\* trimmedLine.includes(':')
hasColon(t) == includes(t, ":")

\* trimmedLine.endsWith(';;')
endsWithTerminator(t) == t # <<>> /\ Last(t) = ";;"

\* a property line that is not a block opener
isPlainProperty(t) == hasColon(t) /\ ~ EndsInBrace(Last(t))

SqlProps ==
    {"sql", "sql_on", "sql_where", "sql_always_where", "sql_trigger_value",
     "html"}

\* \s*: at index k, with the anchor \s*$ if atEnd
colonAt(t, k, atEnd) ==
    tokAt(t, k) = ":" /\ (atEnd => SkipBlanks(t, k) > Len(t))

\* /\b(sql|sql_on|...|html)\s*:/ : a word of P directly followed, blanks
\* apart, by a colon; atEnd adds the anchor \s*$
matchesProp(t, P, atEnd) ==
    \E i \in 1..Len(t) : t[i] \in P /\ colonAt(t, SkipBlanks(t, i), atEnd)

\* the condition of the "SQL block start" branches (without !inSqlBlock)
isSqlStart(t) ==
    \/ matchesProp(t, SqlProps, TRUE)
    \/ /\ matchesProp(t, SqlProps, FALSE)
       /\ ~ \E i \in 1..Len(t) : HasBraceChar(t[i])

MainSingle == {"SELECT", "FROM", "WHERE", "HAVING", "LIMIT", "JOIN", "UNION"}

\* does s, whose first words upper-cased are w, begin with a main keyword ?
\* (no word of the vocabulary has a keyword as a proper prefix)
beginsWithMainKeyword(s, w, withJoins) ==
    \/ w[1] \in MainSingle
    \/ w[1] \in {"GROUP", "ORDER"} /\ w[2] = "BY"
    \/ /\ withJoins
       /\ w[1] \in {"LEFT", "RIGHT", "INNER", "FULL", "OUTER"}
       /\ w[2] = "JOIN"
       /\ tokAt(s, 3) # SP

\* /^\s*(SELECT|FROM|WHERE|GROUP\s+BY|ORDER\s+BY|HAVING|LIMIT|JOIN|UNION)/i,
\* and the same with |LEFT JOIN|RIGHT JOIN|INNER JOIN|FULL JOIN|OUTER JOIN
mainSqlKeyword(s, withJoins) ==
    beginsWithMainKeyword(s, upperWords(s, 1), withJoins)

isMainSqlKeywordShort(t) == mainSqlKeyword(trimStart(t), FALSE)

isMainSqlKeyword(t) == mainSqlKeyword(trimStart(t), TRUE)

(***************************************************************************)
(* formatBlockOpener, formatLookMLProperty.                                *)
(***************************************************************************)
\* blockType + ": " + blockDef
joinAtColon(line, colonIndex) ==
    trim(SubSeq(line, 1, colonIndex - 1)) \o <<":", SP>>
        \o trim(SubSeq(line, colonIndex + 1, Len(line)))

formatBlockOpener(line) ==
    IF hasColon(line) THEN joinAtColon(line, IndexOfTok(line, ":")) ELSE line

\* propValue: a space before a final ';;' that has none
spaceBeforeTerminator(value) ==
    IF endsWithTerminator(value)
       /\ ~ (Len(value) >= 2 /\ value[Len(value) - 1] = SP)
    THEN trim(SubSeq(value, 1, Len(value) - 1)) \o <<SP, ";;">>
    ELSE value

\* propName + ": " + propValue
propertyAtColon(line, colonIndex) ==
    trim(SubSeq(line, 1, colonIndex - 1)) \o <<":", SP>>
        \o spaceBeforeTerminator(trim(SubSeq(line, colonIndex + 1, Len(line))))

formatLookMLProperty(line) ==
    IF hasColon(line) THEN propertyAtColon(line, IndexOfTok(line, ":"))
    ELSE line

isFieldType(type) ==
    type \in {"dimension", "dimension_group", "measure", "parameter", "filter"}

\* /^#\s*-----\s*.*\s*-----\s*$/
isFormatterGeneratedComment(c) ==
    /\ Len(c) >= 2
    /\ c[1] = "#"
    /\ tokAt(c, SkipBlanks(c, 1)) = "-----"
    /\ SkipBlanks(c, 1) < Len(c)
    /\ Last(c) = "-----"

(***************************************************************************)
(* formatSqlKeywords, formatSqlWithLookMLVars.                             *)
(***************************************************************************)
sqlKeywords ==
    << <<"SELECT">>, <<"FROM">>, <<"WHERE">>, <<"GROUP", "BY">>,
       <<"ORDER", "BY">>, <<"HAVING">>, <<"JOIN">>, <<"LEFT", "JOIN">>,
       <<"RIGHT", "JOIN">>, <<"INNER", "JOIN">>, <<"FULL", "JOIN">>,
       <<"OUTER", "JOIN">>, <<"ON">>, <<"AND">>, <<"OR">>, <<"AS">>,
       <<"WITH">>, <<"UNION">>, <<"EXCEPT">>, <<"INTERSECT">>, <<"CASE">>,
       <<"WHEN">>, <<"THEN">>, <<"ELSE">>, <<"END">>, <<"LIMIT">>,
       <<"OFFSET">>, <<"COUNT">>, <<"SUM">>, <<"AVG">>, <<"MIN">>, <<"MAX">>,
       <<"BETWEEN">>, <<"IN">>, <<"EXISTS">>, <<"DISTINCT">>, <<"ALL">> >>

lookMLVarKeywords ==
    << <<"WHERE">>, <<"AND">>, <<"OR">>, <<"FROM">>, <<"JOIN">>,
       <<"GROUP", "BY">>, <<"ORDER", "BY">>, <<"HAVING">> >>

\* does new RegExp(`\\b${kw}\\b`, "i") match at token i of s ?
KeywordAt(s, i, kw) == SubSeq(upperWords(s, i), 1, Len(kw)) = kw

\* s with the keyword kw written at token i (i = 0: no match, s unchanged)
writeKeyword(s, kw, i) ==
    IF i = 0 THEN s
    ELSE SubSeq(s, 1, i - 1)
            \o (IF Len(kw) = 2 THEN <<kw[1], SP, kw[2]>> ELSE kw)
            \o SubSeq(s, (IF Len(kw) = 2 THEN SkipBlanks(s, i) ELSE i) + 1,
                      Len(s))

\* formattedLine.replace(regex, keyword): the first match only
replaceKeyword(s, kw) ==
    writeKeyword(s, kw, least({i \in 1..Len(s) : KeywordAt(s, i, kw)}))

RECURSIVE replaceKeywords(_, _)
replaceKeywords(s, kws) ==
    IF kws = <<>> \/ s = <<>> THEN s
    ELSE replaceKeywords(replaceKeyword(s, Head(kws)), Tail(kws))

\* .replace(/([<>=!])([^=<>\s])/g, "$1 $2")
RECURSIVE spaceAfterOps(_)
spaceAfterOps(s) ==
    IF Len(s) < 2 THEN s
    ELSE IF s[1] \in OpToks /\ s[2] \notin {"=", "<", ">", SP}
         THEN <<s[1], SP, s[2]>> \o spaceAfterOps(SubSeq(s, 3, Len(s)))
         ELSE <<s[1]>> \o spaceAfterOps(Tail(s))

\* .replace(/([^\s<>=!])([<>=!])/g, "$1 $2")
RECURSIVE spaceBeforeOps(_)
spaceBeforeOps(s) ==
    IF Len(s) < 2 THEN s
    ELSE IF s[1] \notin (OpToks \cup {SP}) /\ s[2] \in OpToks
         THEN <<s[1], SP, s[2]>> \o spaceBeforeOps(SubSeq(s, 3, Len(s)))
         ELSE <<s[1]>> \o spaceBeforeOps(Tail(s))

\* .replace(/\s{2,}/g, ' ')
RECURSIVE collapseBlanks(_)
collapseBlanks(s) ==
    IF Len(s) < 2 THEN s
    ELSE IF s[1] = SP /\ s[2] = SP THEN collapseBlanks(Tail(s))
         ELSE <<s[1]>> \o collapseBlanks(Tail(s))

formatSqlKeywords(line) ==
    collapseBlanks(spaceBeforeOps(spaceAfterOps(
        replaceKeywords(line, sqlKeywords))))

formatSqlWithLookMLVars(line) == replaceKeywords(line, lookMLVarKeywords)

\* the SQL-content branch of formatLines and addFormattedFieldContent:
\* which rewriting a content line gets
formatSqlContent(t) ==
    IF ~ includes(t, "{%") /\ ~ includes(t, "{{") /\ ~ includes(t, "${")
    THEN formatSqlKeywords(t)
    ELSE IF includes(t, "${") THEN formatSqlWithLookMLVars(t) ELSE t

\* everything before the first ';;', trimmed (split(';;')[0].trim())
beforeTerminator(t) == trim(SubSeq(t, 1, IndexOfTok(t, ";;") - 1))

(***************************************************************************)
(* parseViews.  The loop body is parseViewsStep; the scanner state holds   *)
(* the locals of the method.  views holds every view opened so far, the    *)
(* view under construction (currentView) being the last one while inView;  *)
(* a view is returned once its endLine is set.  currentField is the        *)
(* address [v, f] of a field of views (f = 0 for null), because the source *)
(* keeps a reference to an object that also sits in its view's field list. *)
(* Line numbers are 1-based here.                                          *)
(***************************************************************************)
Str(toks) == [ind |-> 0, toks |-> toks]

NoField == [v |-> 0, f |-> 0]

NoHeader == [type |-> "", name |-> ""]

parseViewsInit ==
    [views |-> <<>>, inView |-> FALSE, blockStack |-> <<>>, indentLevel |-> 0,
     currentField |-> NoField, pendingComments |-> <<>>,
     inSqlBlock |-> FALSE, sqlBlockIndent |-> 0,
     hasEncounteredFieldInView |-> FALSE]

Max(a, b) == IF a >= b THEN a ELSE b

\* a token matched by [a-zA-Z0-9_]+
isName(tok) == tok # "" /\ IsWord(tok)

\* the second group of blockMatchWithName, or the "{" of blockMatchNoName
headerNamed(type, tok) ==
    IF isName(tok) THEN [type |-> type, name |-> tok]
    ELSE IF tok \in {"{", "{%", "{{"} THEN [type |-> type, name |-> ""]
    ELSE NoHeader

\* k is the index of the first token after the blanks that follow t[1]
headerAt(t, k) ==
    IF isName(tokAt(t, 1)) /\ tokAt(t, k) = ":"
    THEN headerNamed(t[1], tokAt(t, SkipBlanks(t, k)))
    ELSE NoHeader

\* blockMatchWithName / blockMatchNoName of the block-start branch
blockHeader(t) == headerAt(t, SkipBlanks(t, 1))

isDerivedTable(stack) ==
    \E k \in 1..Len(stack) : stack[k].type = "derived_table"

pushNonField(st, l) ==
    [st EXCEPT !.views[Len(st.views)].nonFieldBlocks = Append(@, l)]

pushField(st, contentLine, rawLine) ==
    [st EXCEPT
        !.views[st.currentField.v].fields[st.currentField.f].content =
            Append(@, contentLine),
        !.views[st.currentField.v].fields[st.currentField.f].rawContent =
            Append(@, rawLine)]

\* blockStack.push({type, indent, name}); indentLevel++
pushBlock(st, h) ==
    [st EXCEPT !.blockStack =
                   Append(@, [type |-> h.type, indent |-> st.indentLevel,
                              name |-> h.name]),
               !.indentLevel = @ + 1]

\* the block-start branch, h being the header of the line and opened the
\* line as formatBlockOpener writes it at the current indentation
startBlock(st, i, line, t, h, opened) ==
    IF h.type = "view" /\ ~ st.inView
    THEN [pushBlock(st, h) EXCEPT
            !.inView = TRUE,
            !.hasEncounteredFieldInView = FALSE,
            !.views = Append(@,
                [name |-> h.name, startLine |-> i, endLine |-> -1,
                 header |-> <<line>>, footer |-> <<>>, fields |-> <<>>,
                 nonFieldBlocks |->
                    [k \in 1..Len(st.pendingComments) |->
                        Str(st.pendingComments[k])]]),
            !.pendingComments = <<>>]
    ELSE IF st.inView /\ isFieldType(h.type)
    THEN [pushBlock(st, h) EXCEPT
            !.hasEncounteredFieldInView = TRUE,
            !.views[Len(st.views)].fields = Append(@,
                [type |-> h.type, name |-> h.name, startLine |-> i,
                 endLine |-> -1, content |-> <<opened>>,
                 rawContent |-> <<t>>, indent |-> st.indentLevel,
                 comments |-> st.pendingComments,
                 parentBlocks |->
                    Append(st.blockStack,
                           [type |-> h.type, indent |-> st.indentLevel,
                            name |-> h.name])]),
            !.currentField =
                [v |-> Len(st.views),
                 f |-> Len(st.views[Len(st.views)].fields) + 1],
            !.pendingComments = <<>>]
    ELSE IF st.inView
    THEN IF st.currentField.f # 0
         THEN pushField(pushBlock(st, h), opened, t)
         ELSE pushNonField(pushBlock(st, h), opened)
    ELSE pushBlock(st, h)

parseBlockStart(st, i, line, t) ==
    startBlock(st, i, line, t, blockHeader(t),
               Indented(st.indentLevel, formatBlockOpener(t)))

\* indentLevel = Math.max(0, indentLevel - 1); blockStack.pop()
popBlock(st, lvl) ==
    [st EXCEPT !.indentLevel = lvl,
               !.blockStack = SubSeq(@, 1, Len(@) - 1)]

\* the block-end branch that ends the field at the first closing brace,
\* whatever block it closes
endBlockAtAnyBrace(st, i, line, t, lvl, lastBlock) ==
    IF st.currentField.f # 0
    THEN [pushField(popBlock(st, lvl), Indented(lvl, t), t) EXCEPT
             !.views[st.currentField.v].fields[st.currentField.f].endLine = i,
             !.currentField = NoField]
    ELSE IF st.inView /\ lastBlock.type = "view"
    THEN [popBlock(st, lvl) EXCEPT
             !.inView = FALSE,
             !.views[Len(st.views)].footer = Append(@, line),
             !.views[Len(st.views)].endLine = i]
    ELSE IF st.inView THEN pushNonField(popBlock(st, lvl), line)
    ELSE popBlock(st, lvl)

\* the block-end branch when the stack is not empty, lvl being the new
\* indentation and lastBlock the block that is closed
endBlock(st, i, line, t, lvl, lastBlock) ==
    IF st.currentField.f # 0 /\ lastBlock.type # ""
       /\ isFieldType(lastBlock.type)
    THEN [pushField(popBlock(st, lvl), Indented(lvl, t), t) EXCEPT
             !.views[st.currentField.v].fields[st.currentField.f].endLine = i,
             !.currentField = NoField]
    ELSE IF st.inView /\ lastBlock.type = "view"
    THEN [popBlock(st, lvl) EXCEPT
             !.inView = FALSE,
             !.views[Len(st.views)].footer = Append(@, line),
             !.views[Len(st.views)].endLine = i]
    ELSE IF st.inView /\ st.currentField.f # 0
    THEN pushField(popBlock(st, lvl), Indented(lvl, t), t)
    ELSE IF st.inView THEN pushNonField(popBlock(st, lvl), line)
    ELSE popBlock(st, lvl)

\* the block-end branch that lets the depth go below 0
parseBlockEndWithoutFloor(st, i, line, t) ==
    IF st.blockStack = <<>>
    THEN [st EXCEPT !.indentLevel = @ - 1]
    ELSE endBlock(st, i, line, t, st.indentLevel - 1, Last(st.blockStack))

parseBlockEnd(st, i, line, t) ==
    IF st.blockStack = <<>>
    THEN [st EXCEPT !.indentLevel = Max(0, @ - 1)]
    ELSE endBlock(st, i, line, t, Max(0, st.indentLevel - 1),
                  Last(st.blockStack))

\* the indentation of a line of SQL of the view: main tells whether the
\* line begins with a main keyword, other is the offset of the other lines
viewSqlIndent(st, main, other) ==
    IF isDerivedTable(st.blockStack) THEN (IF main THEN 3 ELSE 4)
    ELSE st.sqlBlockIndent + (IF main THEN 1 ELSE other)

\* the line that ends an SQL block of the view
endViewSql(st, sqlContent, formattedSql) ==
    [(IF sqlContent # <<>>
      THEN pushNonField(st,
              Indented(viewSqlIndent(st, isMainSqlKeywordShort(formattedSql), 1),
                       formattedSql \o <<SP, ";;">>))
      ELSE pushNonField(st, Indented(st.sqlBlockIndent, <<";;">>)))
     EXCEPT !.inSqlBlock = FALSE]

\* a line inside an SQL block of the view
addViewSql(st, formattedLine) ==
    pushNonField(st,
        Indented(viewSqlIndent(st, isMainSqlKeywordShort(formattedLine), 2),
                 trimStart(formattedLine)))

\* "Regular content inside view but not in a field"
parseViewContent(st, line, t) ==
    IF ~ st.inSqlBlock /\ isSqlStart(t)
    THEN [pushNonField(st, Indented(st.indentLevel, formatLookMLProperty(t)))
          EXCEPT !.inSqlBlock = TRUE, !.sqlBlockIndent = st.indentLevel]
    ELSE IF st.inSqlBlock /\ endsWithTerminator(t)
    THEN endViewSql(st, beforeTerminator(t),
                    formatSqlKeywords(beforeTerminator(t)))
    ELSE IF st.inSqlBlock THEN addViewSql(st, formatSqlKeywords(t))
    ELSE IF isPlainProperty(t)
    THEN pushNonField(st, Indented(st.indentLevel, formatLookMLProperty(t)))
    ELSE pushNonField(st, line)

\* the body of the loop for the line of number i, t being line.trim()
parseLine(st, i, line, t) ==
    IF t = <<>>
    THEN IF st.inView /\ st.currentField.f = 0 THEN pushNonField(st, line)
         ELSE st
    ELSE IF isComment(t)
    THEN IF st.currentField.f # 0
         THEN [st EXCEPT
                 !.views[st.currentField.v].fields[st.currentField.f].comments =
                     Append(@, t),
                 !.views[st.currentField.v].fields[st.currentField.f].content =
                     Append(@, Indented(
                         st.views[st.currentField.v]
                             .fields[st.currentField.f].indent + 1, t))]
         ELSE IF st.inView
         THEN IF ~ st.hasEncounteredFieldInView
              THEN pushNonField(st, Str(t))
              ELSE [st EXCEPT !.pendingComments = Append(@, t)]
         ELSE st
    ELSE IF isBlockStart(t) THEN parseBlockStart(st, i, line, t)
    ELSE IF isBlockEnd(t) THEN parseBlockEnd(st, i, line, t)
    ELSE IF st.inView
    THEN IF st.currentField.f # 0
         THEN pushField(st,
                 Indented(st.indentLevel,
                     IF isPlainProperty(t) THEN formatLookMLProperty(t)
                     ELSE t),
                 t)
         ELSE parseViewContent(st, line, t)
    ELSE st

parseViewsStep(st, i, line) == parseLine(st, i, line, trimEnd(line.toks))

RECURSIVE parseViewsFrom(_, _, _)
parseViewsFrom(st, i, lines) ==
    IF i > Len(lines) THEN st
    ELSE parseViewsFrom(parseViewsStep(st, i, lines[i]), i + 1, lines)

parseViews(lines) ==
    SelectSeq(parseViewsFrom(parseViewsInit, 1, lines).views,
              LAMBDA v : v.endLine # -1)

(***************************************************************************)
(* addFormattedFieldContent.                                               *)
(***************************************************************************)
\* trimmedLine.replace(/color:(\w+)/g, "color: $1")
RECURSIVE colorFix(_)
colorFix(s) ==
    IF Len(s) < 3 THEN s
    ELSE IF s[1] = "color" /\ s[2] = ":" /\ IsWord(s[3])
         THEN <<s[1], s[2], SP>> \o colorFix(SubSeq(s, 3, Len(s)))
         ELSE <<s[1]>> \o colorFix(Tail(s))

\* trimmedLine.includes("color:")
includesColor(s) ==
    \E i \in 1..(Len(s) - 1) : s[i] = "color" /\ s[i + 1] = ":"

isHtmlContent(field) ==
    \E k \in 1..Len(field.rawContent) :
        matchesProp(trim(field.rawContent[k]), {"html"}, TRUE)

\* the indentation of a line of SQL or HTML of a field
fieldSqlIndent(field, lvl, main) ==
    IF isDerivedTable(field.parentBlocks) THEN (IF main THEN 3 ELSE 4)
    ELSE IF main THEN lvl + 1 ELSE lvl + 2

\* a line inside an SQL or HTML block of a field
addFieldSql(w, field, formattedLine) ==
    [w EXCEPT !.out =
        Append(@, Indented(fieldSqlIndent(field, w.nestedIndentLevel,
                                          isMainSqlKeyword(formattedLine)),
                           trimStart(formattedLine)))]

\* one iteration of the loop over field.rawContent;
\* w = [out, nestedIndentLevel, inSqlBlock]
fieldContentStep(w, field, t) ==
    LET blockIndent == field.indent + 1
        lvl == w.nestedIndentLevel
    IN  IF isBlockStart(t)
        THEN [w EXCEPT !.out = Append(@, Indented(lvl, formatBlockOpener(t))),
                       !.nestedIndentLevel = lvl + 1]
        ELSE IF isBlockEnd(t)
        THEN IF lvl - 1 < blockIndent
             THEN [out |-> Append(w.out, Indented(field.indent, t)),
                   nestedIndentLevel |-> blockIndent, inSqlBlock |-> FALSE]
             ELSE [out |-> Append(w.out, Indented(lvl - 1, t)),
                   nestedIndentLevel |-> lvl - 1, inSqlBlock |-> FALSE]
        ELSE IF ~ w.inSqlBlock /\ isSqlStart(t)
        THEN [w EXCEPT !.out = Append(@, Indented(lvl, formatLookMLProperty(t))),
                       !.inSqlBlock = TRUE]
        ELSE IF w.inSqlBlock /\ endsWithTerminator(t)
        THEN [w EXCEPT
                !.out = Append(@,
                    IF t = <<";;">> THEN Indented(lvl, <<";;">>)
                    ELSE Indented(lvl,
                            formatSqlKeywords(beforeTerminator(t)) \o <<";;">>)),
                !.inSqlBlock = FALSE]
        ELSE IF w.inSqlBlock
        THEN addFieldSql(w, field,
                 IF isHtmlContent(field)
                 THEN (IF includesColor(t) THEN colorFix(t) ELSE t)
                 ELSE formatSqlContent(t))
        ELSE IF t = <<>> THEN [w EXCEPT !.out = Append(@, EmptyLine)]
        ELSE IF isComment(t) THEN [w EXCEPT !.out = Append(@, Indented(lvl, t))]
        ELSE IF isPlainProperty(t)
        THEN [w EXCEPT !.out = Append(@, Indented(lvl, formatLookMLProperty(t)))]
        ELSE [w EXCEPT !.out = Append(@, Indented(lvl, t))]

RECURSIVE fieldContentFrom(_, _, _)
fieldContentFrom(w, field, i) ==
    IF i > Len(field.rawContent) THEN w
    ELSE fieldContentFrom(
            fieldContentStep(w, field, trim(field.rawContent[i])), field, i + 1)

addFormattedFieldContent(output, field) ==
    fieldContentFrom(
        [out |-> Append(output,
                    IF cfg.groupFieldsByType
                    THEN Indented(1, field.content[1].toks)
                    ELSE field.content[1]),
         nestedIndentLevel |-> field.indent + 1, inSqlBlock |-> FALSE],
        field, 2).out

(***************************************************************************)
(* addFieldSection, organizeViewFields, formatView.                        *)
(***************************************************************************)
sectionHeader(sectionName) ==
    <<"#", SP, "-----", SP, sectionName, SP, "-----">>

sectionFooter(sectionName) ==
    <<"#", SP, "-----", SP, "End", SP, "of", SP, sectionName, SP, "-----">>

\* output.some(line => line.trim() === text)
isAlreadyPresent(output, text) ==
    \E k \in 1..Len(output) : trimEnd(output[k].toks) = text

\* the comments of a field, then the field
addFieldWithComments(output, field, indentLevel) ==
    addFormattedFieldContent(
        Append(output, EmptyLine)
            \o [k \in 1..Len(field.comments) |->
                    Indented(indentLevel, field.comments[k])],
        field)

RECURSIVE addFields(_, _, _)
addFields(output, fields, indentLevel) ==
    IF fields = <<>> THEN output
    ELSE addFields(addFieldWithComments(output, Head(fields), indentLevel),
                   Tail(fields), indentLevel)

\* a header or footer of a section, unless grouping is off or the output
\* already holds it
addSectionMarker(output, marker, indentLevel) ==
    IF cfg.groupFieldsByType /\ ~ isAlreadyPresent(output, marker)
    THEN Append(output, Indented(indentLevel, marker))
    ELSE output

addFieldSection(output, fields, sectionName, indentLevel) ==
    IF fields = <<>> THEN output
    ELSE addSectionMarker(
            addFields(
                addSectionMarker(output, sectionHeader(sectionName),
                                 indentLevel),
                fields, indentLevel),
            sectionFooter(sectionName), indentLevel)

\* The names of the vocabulary in the order of String.prototype.localeCompare.
Collation ==
    <<"", "apple", "created", "id", "orders", "total_sales", "zebra">>

nameRank(n) == CHOOSE k \in 1..Len(Collation) : Collation[k] = n

localeCompare(a, b) == nameRank(a) - nameRank(b)

\* Array.prototype.sort((a, b) => a.name.localeCompare(b.name)), a stable sort
RECURSIVE insertSorted(_, _)
insertSorted(sorted, x) ==
    IF sorted = <<>> THEN <<x>>
    ELSE IF localeCompare(Last(sorted).name, x.name) <= 0
         THEN Append(sorted, x)
         ELSE Append(insertSorted(SubSeq(sorted, 1, Len(sorted) - 1), x),
                     Last(sorted))

RECURSIVE sortByName(_)
sortByName(fs) ==
    IF fs = <<>> THEN <<>>
    ELSE insertSorted(sortByName(SubSeq(fs, 1, Len(fs) - 1)), Last(fs))

\* the list of one type, sorted if sortFields
fieldsOfTypes(view, types) ==
    LET l == SelectSeq(view.fields, LAMBDA f : f.type \in types)
    IN  IF cfg.sortFields THEN sortByName(l) ELSE l

\* a variant that forgets the dimension_groups
dimensionSectionWithoutGroups(view) == fieldsOfTypes(view, {"dimension"})

\* [...dimensions, ...dimensionGroups]
dimensionSection(view) ==
    fieldsOfTypes(view, {"dimension"}) \o fieldsOfTypes(view, {"dimension_group"})

\* a variant that adds the measures before the dimensions
sectionsOfMeasuresFirst(view) ==
    << [name |-> "Filters", fields |-> fieldsOfTypes(view, {"filter"})],
       [name |-> "Parameters", fields |-> fieldsOfTypes(view, {"parameter"})],
       [name |-> "Measures", fields |-> fieldsOfTypes(view, {"measure"})],
       [name |-> "Dimensions", fields |-> dimensionSection(view)] >>

\* the four sections in the order in which they are added
sectionsOf(view) ==
    << [name |-> "Filters", fields |-> fieldsOfTypes(view, {"filter"})],
       [name |-> "Parameters", fields |-> fieldsOfTypes(view, {"parameter"})],
       [name |-> "Dimensions", fields |-> dimensionSection(view)],
       [name |-> "Measures", fields |-> fieldsOfTypes(view, {"measure"})] >>

othersOf(view) ==
    SelectSeq(view.fields, LAMBDA f : ~ isFieldType(f.type))

RECURSIVE addSections(_, _, _, _)
addSections(output, secs, fieldIndent, hasAddedFirstSection) ==
    IF secs = <<>> THEN output
    ELSE IF Head(secs).fields = <<>>
    THEN addSections(output, Tail(secs), fieldIndent, hasAddedFirstSection)
    ELSE addSections(
            addFieldSection(
                IF hasAddedFirstSection THEN output
                ELSE Append(output, EmptyLine),
                Head(secs).fields, Head(secs).name, fieldIndent),
            Tail(secs), fieldIndent, TRUE)

organizeViewFields(view, output) ==
    LET fieldIndent ==
            IF Len(view.fields) > 0 THEN view.fields[1].indent ELSE 1
    IN  addFields(addSections(output, sectionsOf(view), fieldIndent, FALSE),
                  othersOf(view), fieldIndent)

\* one line of the view's non-field content, as formatView emits it
nonFieldLine(line, t) ==
    IF isComment(t) THEN Indented(1, t)
    ELSE IF hasColon(t) /\ ~ \E k \in 1..Len(t) : HasBraceChar(t[k])
    THEN Indented(1, t)
    ELSE line

\* the non-field content of a view, as formatView emits it
nonFieldLines(blocks) ==
    [k \in 1..Len(blocks) |-> nonFieldLine(blocks[k], trimEnd(blocks[k].toks))]

\* neither empty nor a marker of a former run
isKeptNonFieldBlock(t) == t # <<>> /\ ~ isFormatterGeneratedComment(t)

RECURSIVE addFieldsInOrder(_, _)
addFieldsInOrder(output, fields) ==
    IF fields = <<>> THEN output
    ELSE addFieldsInOrder(Append(output \o Head(fields).content, EmptyLine),
                          Tail(fields))

\* the fields of the view added to start, the output up to the view's
\* header and non-field content
addViewFields(view, start) ==
    IF cfg.groupFieldsByType \/ cfg.sortFields
    THEN organizeViewFields(view, start)
    ELSE addFieldsInOrder(start, view.fields)

formatView(view, output) ==
    addViewFields(view,
        output \o view.header
            \o nonFieldLines(
                SelectSeq(view.nonFieldBlocks,
                    LAMBDA l : isKeptNonFieldBlock(trimEnd(l.toks)))))
        \o view.footer

(***************************************************************************)
(* formatLines, the scanner of the simple mode.                            *)
(***************************************************************************)
formatLinesInit ==
    [out |-> <<>>, indentLevel |-> 0, inSqlBlock |-> FALSE,
     sqlBlockIndent |-> 0, blockStack |-> <<>>]

\* the indentation of a line inside an SQL block
sqlIndent(w, main) ==
    IF isDerivedTable(w.blockStack) THEN (IF main THEN 3 ELSE 4)
    ELSE IF main THEN w.sqlBlockIndent + 1 ELSE w.sqlBlockIndent + 2

\* a line inside an SQL block
addSql(w, formatted) ==
    [w EXCEPT !.out =
        Append(@, Indented(sqlIndent(w, isMainSqlKeyword(formatted)),
                           trimStart(formatted)))]

\* a space before the final ';;' of a property
spacedTerminator(p) ==
    IF endsWithTerminator(p) /\ ~ (Len(p) >= 2 /\ p[Len(p) - 1] = SP)
    THEN beforeTerminator(p) \o <<SP, ";;">>
    ELSE p

\* a property line; opensSql if it is an SQL property without a value
addProperty(w, formattedLine, opensSql) ==
    [w EXCEPT
        !.out = Append(@, Indented(w.indentLevel, formattedLine)),
        !.inSqlBlock = IF opensSql THEN TRUE ELSE @,
        !.sqlBlockIndent = IF opensSql THEN w.indentLevel ELSE @]

formatProperty(w, formattedLine) ==
    addProperty(w, formattedLine,
                matchesProp(formattedLine, SqlProps \ {"html"}, TRUE))

\* the body of the loop, t being line.trim()
formatLine(w, line, t) ==
    LET lvl == w.indentLevel
    IN  IF t = <<>> THEN [w EXCEPT !.out = Append(@, EmptyLine)]
        ELSE IF isBlockStart(t)
        THEN [w EXCEPT
                !.blockStack = Append(@,
                    [type |-> IF isName(t[1]) /\ tokAt(t, SkipBlanks(t, 1)) = ":"
                              THEN t[1] ELSE "unknown",
                     indent |-> lvl]),
                !.out = Append(@, Indented(lvl, formatBlockOpener(t))),
                !.indentLevel = lvl + 1]
        ELSE IF isBlockEnd(t)
        THEN [w EXCEPT
                !.indentLevel = Max(0, lvl - 1),
                !.blockStack = IF @ = <<>> THEN @ ELSE SubSeq(@, 1, Len(@) - 1),
                !.out = Append(@, Indented(Max(0, lvl - 1), t))]
        ELSE IF ~ w.inSqlBlock /\ isSqlStart(t)
        THEN [w EXCEPT
                !.out = Append(@, Indented(lvl, formatLookMLProperty(t))),
                !.inSqlBlock = TRUE,
                !.sqlBlockIndent = lvl]
        ELSE IF w.inSqlBlock /\ endsWithTerminator(t)
        THEN [w EXCEPT
                !.out = Append(@,
                    IF t = <<";;">> THEN Indented(lvl, <<";;">>)
                    ELSE Indented(w.sqlBlockIndent,
                            formatSqlKeywords(beforeTerminator(t))
                                \o <<SP, ";;">>)),
                !.inSqlBlock = FALSE]
        ELSE IF w.inSqlBlock THEN addSql(w, formatSqlContent(t))
        ELSE IF isPlainProperty(t)
        THEN formatProperty(w, spacedTerminator(formatLookMLProperty(t)))
        ELSE [w EXCEPT !.out = Append(@, Indented(lvl, t))]

formatLinesStep(w, line) == formatLine(w, line, trimEnd(line.toks))

RECURSIVE formatLinesFrom(_, _, _)
formatLinesFrom(w, i, lines) ==
    IF i > Len(lines) THEN w
    ELSE formatLinesFrom(formatLinesStep(w, lines[i]), i + 1, lines)

formatLines(lines) == formatLinesFrom(formatLinesInit, 1, lines).out

(***************************************************************************)
(* formatWithAdvancedOptions, format.                                      *)
(***************************************************************************)
\* currentLine when the loop over the views reaches view k (1-based)
currentLineAt(views, k) == IF k = 1 THEN 1 ELSE views[k - 1].endLine + 1

\* formattedLines after the first k iterations of the loop over the views
RECURSIVE outputUpTo(_, _, _)
outputUpTo(lines, views, k) ==
    IF k = 0 THEN <<>>
    ELSE formatView(views[k],
            outputUpTo(lines, views, k - 1)
                \o SubSeq(lines, currentLineAt(views, k),
                          views[k].startLine - 1))

\* the loop over the views, and the lines after the last view
formatViews(lines, views) ==
    outputUpTo(lines, views, Len(views))
        \o SubSeq(lines, currentLineAt(views, Len(views) + 1), Len(lines))

\* the choice made once the views are parsed
formatParsed(lines, views) ==
    IF Len(views) = 0 THEN formatLines(lines) ELSE formatViews(lines, views)

formatWithAdvancedOptions(lines) == formatParsed(lines, parseViews(lines))

\* the text of the replacement, i.e. the document once the edits are applied
formattedText(lines) ==
    IF ~ cfg.groupFieldsByType /\ ~ cfg.sortFields
    THEN formatLines(lines)
    ELSE formatWithAdvancedOptions(lines)

\* the edit list: empty, or one replacement of the whole document
editsFor(lines, text) == IF text # lines THEN <<text>> ELSE <<>>

\* LookMLFormatter.format
format(lines) == editsFor(lines, formattedText(lines))

(***************************************************************************)
(* The fallback parser of the linter (src/linter/parser.ts).  It works on  *)
(* the text of the whole document: the lines joined by the token NL, the   *)
(* leading blanks of a line being one blank token (every expression of the *)
(* parser takes leading blanks with \s* or \s+).  A Record<string, T> of   *)
(* the source is the sequence of its values in insertion order, each value *)
(* carrying its key as the field name; an optional property is <<>> when   *)
(* undefined and <<value>> otherwise.  A keyword of an expression matches  *)
(* a whole token: no word of the vocabulary ends with another keyword.     *)
(***************************************************************************)
NL == "\n"

QUOTE == "\""

isWs(t) == t \in {SP, NL}

flatLine(l) == (IF l.ind > 0 THEN <<SP>> ELSE <<>>) \o l.toks

\* TextDocument.getText()
RECURSIVE getText(_)
getText(lines) ==
    IF lines = <<>> THEN <<>>
    ELSE IF Len(lines) = 1 THEN flatLine(lines[1])
    ELSE flatLine(lines[1]) \o <<NL>> \o getText(Tail(lines))

\* first index from i on that does not hold white space, Len(s) + 1 if none
RECURSIVE skipWs(_, _)
skipWs(s, i) ==
    IF i <= Len(s) /\ isWs(s[i]) THEN skipWs(s, i + 1) ELSE i

\* String.prototype.trim on text that spans lines
RECURSIVE trimWs(_)
trimWs(s) ==
    IF s # <<>> /\ isWs(Head(s)) THEN trimWs(Tail(s))
    ELSE IF s # <<>> /\ isWs(Last(s)) THEN trimWs(SubSeq(s, 1, Len(s) - 1))
    ELSE s

\* the words of the vocabulary that hold a digit
DigitWords == {"0", "1", "2", "pk1"}

\* [a-zA-Z_]+
isLetters(t) == isName(t) /\ t \notin DigitWords

\* keyword:\s+([a-zA-Z0-9_]+)\s*\{ at index i: the index of the name
nameIndex(s, i) == skipWs(s, i + 2)

\* ... and the index after the brace, where the lazy group starts
bodyIndex(s, i) == skipWs(s, nameIndex(s, i) + 1) + 1

opensAt(s, i, keyword) ==
    /\ tokAt(s, i) = keyword
    /\ tokAt(s, i + 1) = ":"
    /\ isWs(tokAt(s, i + 2))
    /\ isName(tokAt(s, nameIndex(s, i)))
    /\ tokAt(s, bodyIndex(s, i) - 1) = "{"

\* \n\s*keyword: at index e, for a keyword of the set
lineStartsWith(s, e, keywords) ==
    /\ tokAt(s, e) = NL
    /\ tokAt(s, skipWs(s, e + 1)) \in keywords
    /\ tokAt(s, skipWs(s, e + 1) + 1) = ":"

\* \n\s*\} at index e
lineStartsWithBrace(s, e) ==
    tokAt(s, e) = NL /\ tokAt(s, skipWs(s, e + 1)) \in {"}", "}}"}

\* \s*$ at index e
onlyWsFrom(s, e) == skipWs(s, e) > Len(s)

\* The match of a lazy group ([\s\S]*?) that starts at index c: the least
\* index e from c on where the lookahead holds, the group being s[c..e-1];
\* 0 if the lookahead holds nowhere.
lazyEnd(s, c, ahead(_, _)) ==
    least({e \in c..(Len(s) + 1) : ahead(s, e)})

\* a property expression  keyword:\s*  at index i: the index of its value
valueIndex(s, i) == skipWs(s, i + 2)

\* index of the first  keyword:  of s, 0 if none
propertyIndex(s, keyword) ==
    least({i \in 1..Len(s) : s[i] = keyword /\ tokAt(s, i + 1) = ":"})

\* the rest of the line from index i on
restOfLine(s, i) ==
    SubSeq(s, i, least({e \in i..(Len(s) + 1) : tokAt(s, e) \in {NL, ""}}) - 1)

\* keyword:\s*([^\n]+) and trim(): <<>> without a match.  When only white
\* space follows the colon, \s* gives a blank back to the group if it holds
\* one, and the trimmed value is the empty string.
linePropertyAt(s, i) ==
    IF i = 0 THEN <<>>
    ELSE IF valueIndex(s, i) > Len(s)
    THEN IF \E k \in (i + 2)..Len(s) : s[k] = SP THEN << <<>> >> ELSE <<>>
    ELSE << trim(restOfLine(s, valueIndex(s, i))) >>

lineProperty(s, keyword) == linePropertyAt(s, propertyIndex(s, keyword))

nextPropertyOrEnd(s, e) ==
    e = Len(s) + 1
        \/ (tokAt(s, e) = NL /\ isLetters(tokAt(s, skipWs(s, e + 1)))
                /\ tokAt(s, skipWs(s, e + 1) + 1) = ":")

\* the first group of the match at index i of an expression
\* keyword:\s*([\s\S]*?)(?=ahead), trimmed; <<>> without a match (i = 0)
textPropertyAt(s, i, ahead(_, _)) ==
    IF i = 0 THEN <<>>
    ELSE << trimWs(SubSeq(s, valueIndex(s, i),
                          lazyEnd(s, valueIndex(s, i), ahead) - 1)) >>

\* keyword:\s*([\s\S]*?)(?=\n\s*[a-zA-Z_]+:|$) and trim()
textProperty(s, keyword) ==
    textPropertyAt(s, propertyIndex(s, keyword), nextPropertyOrEnd)

\* index of the first  keyword:\s*"  of s that has a closing quote after at
\* least one character, 0 if none
quotedIndex(s, keyword) ==
    least({i \in 1..Len(s) :
              /\ s[i] = keyword /\ tokAt(s, i + 1) = ":"
              /\ tokAt(s, valueIndex(s, i)) = QUOTE
              /\ tokAt(s, valueIndex(s, i) + 1) \notin {QUOTE, ""}
              /\ \E e \in (valueIndex(s, i) + 2)..Len(s) : s[e] = QUOTE})

quotedPropertyAt(s, i) ==
    IF i = 0 THEN <<>>
    ELSE << SubSeq(s, valueIndex(s, i) + 1,
                   least({e \in (valueIndex(s, i) + 2)..Len(s) :
                             s[e] = QUOTE}) - 1) >>

\* keyword:\s*"([^"]+)"
quotedProperty(s, keyword) == quotedPropertyAt(s, quotedIndex(s, keyword))

\* primary_key:\s*(yes|true|no|false) with the "i" flag, and the test of
\* the captured word against "yes" and "true"
primaryKeyIndex(s) ==
    least({i \in 1..Len(s) :
              /\ s[i] = "primary_key" /\ tokAt(s, i + 1) = ":"
              /\ tokAt(s, valueIndex(s, i)) \in
                     {"yes", "true", "no", "false", "Yes"}})

primaryKeyAt(s, i) ==
    IF i = 0 THEN <<>>
    ELSE << tokAt(s, valueIndex(s, i)) \in {"yes", "true", "Yes"} >>

primaryKey(s) == primaryKeyAt(s, primaryKeyIndex(s))

\* record[value.name] = value
put(record, value) ==
    IF \E i \in 1..Len(record) : record[i].name = value.name
    THEN [i \in 1..Len(record) |->
             IF record[i].name = value.name THEN value ELSE record[i]]
    ELSE Append(record, value)

names(record) == {record[i].name : i \in 1..Len(record)}

get(record, name) ==
    record[CHOOSE i \in 1..Len(record) : record[i].name = name]

FieldTypes == <<"dimension", "dimension_group", "measure", "filter">>

FieldKeywords == {"dimension", "dimension_group", "measure", "filter"}

fieldAhead(s, e) ==
    lineStartsWith(s, e, FieldKeywords) \/ lineStartsWithBrace(s, e)

\* the body of the while loop of extractFields
lookMLField(name, fieldContent) ==
    [name |-> name,
     type |-> lineProperty(fieldContent, "type"),
     sql |-> textProperty(fieldContent, "sql"),
     primary_key |-> primaryKey(fieldContent),
     label |-> quotedProperty(fieldContent, "label"),
     description |-> quotedProperty(fieldContent, "description"),
     html |-> textProperty(fieldContent, "html")]

\* \n\s*\} as a lookahead
braceAhead(s, e) == lineStartsWithBrace(s, e)

\* derived_table:\s*\{([\s\S]*?)(?=\n\s*\}): index of the match, 0 if none
derivedTableIndex(s) ==
    least({i \in 1..Len(s) :
              /\ s[i] = "derived_table" /\ tokAt(s, i + 1) = ":"
              /\ tokAt(s, skipWs(s, i + 2)) = "{"
              /\ lazyEnd(s, skipWs(s, i + 2) + 1, braceAhead) # 0})

derivedTableContent(s, i) ==
    SubSeq(s, skipWs(s, i + 2) + 1,
           lazyEnd(s, skipWs(s, i + 2) + 1, braceAhead) - 1)

\* (?=\n\s*;;\s*|$)
terminatorLineOrEnd(s, e) ==
    e = Len(s) + 1 \/ (tokAt(s, e) = NL /\ tokAt(s, skipWs(s, e + 1)) = ";;")

\* view.derived_table = { sql: '' } and the sql of the derived table
derivedTableSql(s) ==
    IF propertyIndex(s, "sql") = 0 THEN <<>>
    ELSE trimWs(SubSeq(s, valueIndex(s, propertyIndex(s, "sql")),
                       lazyEnd(s, valueIndex(s, propertyIndex(s, "sql")),
                               terminatorLineOrEnd) - 1))

derivedTable(viewContent) ==
    IF derivedTableIndex(viewContent) = 0 THEN <<>>
    ELSE << [sql |-> derivedTableSql(
                derivedTableContent(viewContent,
                                    derivedTableIndex(viewContent)))] >>

\* (?=\n\s*view:|\n\s*explore:|\n\s*model:|\s*$)
topLevelAhead(s, e) ==
    lineStartsWith(s, e, {"view", "explore", "model"}) \/ onlyWsFrom(s, e)

RECURSIVE extractBlocks(_, _)

\* the body of the while loop of extractViews
simpleView(viewName, viewContent) ==
    [name |-> viewName,
     sql_table_name |-> lineProperty(viewContent, "sql_table_name"),
     derived_table |-> derivedTable(viewContent),
     fields |-> [k \in 1..4 |-> extractBlocks(viewContent, FieldTypes[k])]]

dimensions(view) == view.fields[1]

\* (?=\n\s*join:|\n\s*\})
joinAhead(s, e) ==
    lineStartsWith(s, e, {"join"}) \/ lineStartsWithBrace(s, e)

\* the body of the while loop of extractJoins
simpleJoin(joinName, joinContent) ==
    [name |-> joinName,
     sql_on |-> textProperty(joinContent, "sql_on"),
     relationship |-> lineProperty(joinContent, "relationship")]

\* the body of the while loop of extractExplores
simpleExplore(exploreName, exploreContent) ==
    [name |-> exploreName,
     view_name |-> lineProperty(exploreContent, "view_name"),
     joins |-> extractBlocks(exploreContent, "join")]

\* the matches of include:\s*"([^"]+)" with the "g" flag, from index i on
RECURSIVE includesFrom(_, _)
includesFrom(s, i) ==
    IF quotedIndex(SubSeq(s, i, Len(s)), "include") = 0 THEN <<>>
    ELSE <<quotedProperty(SubSeq(s, i, Len(s)), "include")[1]>>
             \o includesFrom(s, i + quotedIndex(SubSeq(s, i, Len(s)),
                                                "include") + 1)

\* the body of the while loop of extractModels
simpleModel(modelName, modelContent) ==
    [name |-> modelName,
     connection |-> lineProperty(modelContent, "connection"),
     includes |-> IF includesFrom(modelContent, 1) = <<>> THEN <<>>
                  ELSE <<includesFrom(modelContent, 1)>>]

\* the lookahead that ends the lazy group of a block of a keyword
blockAhead(keyword, s, e) ==
    IF keyword \in {"view", "explore", "model"} THEN topLevelAhead(s, e)
    ELSE IF keyword = "join" THEN joinAhead(s, e)
    ELSE fieldAhead(s, e)

\* end of the lazy group that starts at index c, see lazyEnd
blockEnd(s, c, keyword) ==
    least({e \in c..(Len(s) + 1) : blockAhead(keyword, s, e)})

\* index of the next match from lastIndex on of the expression
\* keyword:\s+([a-zA-Z0-9_]+)\s*\{([\s\S]*?)(?=...), 0 if none
blockMatch(s, lastIndex, keyword) ==
    least({i \in lastIndex..Len(s) :
              opensAt(s, i, keyword) /\ blockEnd(s, bodyIndex(s, i), keyword) # 0})

\* the value a loop stores for a match: its name and its second group
RECURSIVE blockOf(_, _, _)

\* The while loops of extractViews, extractExplores, extractModels,
\* extractJoins and extractFields.  extractBlocksFrom looks for the next
\* match from lastIndex on; extractBlocksAt is the body of the loop for the
\* match at index i whose second group ends before index e, where the next
\* search starts.
RECURSIVE extractBlocksFrom(_, _, _, _)
extractBlocksAt(s, i, e, keyword, blocks) ==
    extractBlocksFrom(s, e, keyword,
                      put(blocks, blockOf(keyword, s[nameIndex(s, i)],
                                          SubSeq(s, bodyIndex(s, i), e - 1))))

extractBlocksMatch(s, i, keyword, blocks) ==
    IF i = 0 THEN blocks
    ELSE extractBlocksAt(s, i, blockEnd(s, bodyIndex(s, i), keyword), keyword,
                         blocks)

extractBlocksFrom(s, lastIndex, keyword, blocks) ==
    extractBlocksMatch(s, blockMatch(s, lastIndex, keyword), keyword, blocks)

extractBlocks(content, keyword) == extractBlocksFrom(content, 1, keyword, <<>>)

blockOf(keyword, name, content) ==
    IF keyword = "view" THEN simpleView(name, content)
    ELSE IF keyword = "explore" THEN simpleExplore(name, content)
    ELSE IF keyword = "model" THEN simpleModel(name, content)
    ELSE IF keyword = "join" THEN simpleJoin(name, content)
    ELSE lookMLField(name, content)

parseLookMLSync(lookmlContent) ==
    [views |-> extractBlocks(lookmlContent, "view"),
     explores |-> extractBlocks(lookmlContent, "explore"),
     models |-> extractBlocks(lookmlContent, "model")]

(***************************************************************************)
(* The rules of the linter (src/linter/rules.ts).  A violation is a record *)
(* [ruleId, message, severity, path]; the message is the tuple of the      *)
(* values its template interpolates, after a tag that names the template.  *)
(* A value the external parser delivers in place of a string, on which a   *)
(* string method is not defined, is the text NotAString.                   *)
(***************************************************************************)
NotAString == <<"[object]">>

\* an optional string that is neither undefined nor the empty string
truthy(opt) == opt # <<>> /\ opt[1] # <<>>

\* !view.derived_table && !view.sql_table_name
hasNoTable(view) == view.derived_table = <<>> /\ ~ truthy(view.sql_table_name)

\* the words of the vocabulary that match /^pk\d*$/i
PkNames == {"pk", "PK", "pk1"}

pkDimensions(view) ==
    SelectSeq(dimensions(view), LAMBDA dim : dim.primary_key = <<TRUE>>)

missingPrimaryKey(viewName) ==
    [ruleId |-> "k1", message |-> <<"missing primary key", viewName>>,
     severity |-> "warning", path |-> <<"views", viewName>>]

misnamedPrimaryKey(viewName, dimName) ==
    [ruleId |-> "k1", message |-> <<"naming convention", dimName, viewName>>,
     severity |-> "warning",
     path |-> <<"views", viewName, "dimensions", dimName>>]

\* the violations of the naming convention among the primary keys of a view
misnamedAmong(viewName, pks) ==
    [k \in 1..Len(pks) |-> misnamedPrimaryKey(viewName, pks[k].name)]

\* the body of the loop without the test for a table
primaryKeysOfEveryView(view) ==
    IF pkDimensions(view) = <<>> THEN <<missingPrimaryKey(view.name)>>
    ELSE misnamedAmong(view.name,
                       SelectSeq(pkDimensions(view),
                                 LAMBDA dim : dim.name \notin PkNames))

\* the body of the loop of checkPrimaryKeys
primaryKeysOf(view) ==
    IF hasNoTable(view) THEN <<>>
    ELSE IF pkDimensions(view) = <<>> THEN <<missingPrimaryKey(view.name)>>
    ELSE misnamedAmong(view.name,
                       SelectSeq(pkDimensions(view),
                                 LAMBDA dim : dim.name \notin PkNames))

checkPrimaryKeys(lookml) ==
    concat([k \in 1..Len(lookml.views) |-> primaryKeysOf(lookml.views[k])])

\* End of the span that an expression  open[^x]+close  matches at index i,
\* 0 if it does not match: stops are the tokens that hold the character x
\* or start the closing text, closers the stops that close the span.
spanEnd(s, i, stops, closers) ==
    IF least({j \in (i + 1)..Len(s) : s[j] \in stops}) >= i + 2
          /\ s[least({j \in (i + 1)..Len(s) : s[j] \in stops})] \in closers
    THEN least({j \in (i + 1)..Len(s) : s[j] \in stops})
    ELSE 0

\* String.prototype.replace(/open[^x]+close/g, ''): what is left of a
\* closing token "}}" after its first character closed a ${ span is "}"
RECURSIVE removeSpans(_, _, _, _, _)
removeSpans(s, i, open, stops, closers) ==
    IF i > Len(s) THEN <<>>
    ELSE IF s[i] = open /\ spanEnd(s, i, stops, closers) # 0
    THEN (IF open = "${" /\ s[spanEnd(s, i, stops, closers)] = "}}"
          THEN <<"}">> ELSE <<>>)
             \o removeSpans(s, spanEnd(s, i, stops, closers) + 1, open, stops,
                            closers)
    ELSE <<s[i]>> \o removeSpans(s, i + 1, open, stops, closers)

cleanedSql(sql_on) ==
    removeSpans(
        removeSpans(
            removeSpans(sql_on, 1, "${", {"}", "}}", "%}"}, {"}", "}}", "%}"}),
            1, "{{", {"}", "}}", "%}"}, {"}}"}),
        1, "{%", {"{%", "%}"}, {"%}"})

\* [a-zA-Z0-9._]
inReference(t) == t = "." \/ (IsWord(t) /\ t # "")

\* [a-zA-Z0-9 ._]
inReferenceTail(t) == t = SP \/ inReference(t)

\* last index of the run of tokens of the first class (of the second when
\* tail) that starts at index i
RECURSIVE runEnd(_, _, _)
runEnd(s, i, tail) ==
    IF i <= Len(s) /\ (inReference(s[i]) \/ (tail /\ s[i] = SP))
    THEN runEnd(s, i + 1, tail) ELSE i - 1

greatest(S) == IF S = {} THEN 0 ELSE CHOOSE i \in S : \A j \in S : j <= i

\* The dot of directTablePattern for a match that starts at index p: the
\* first group is greedy and gives back to the last dot that something of
\* the second class follows; 0 if the expression does not match at p.
referenceDot(s, p) ==
    greatest({d \in (p + 1)..runEnd(s, p, FALSE) :
                 s[d] = "." /\ inReferenceTail(tokAt(s, d + 1))})

\* the matches of directTablePattern from index i on, as pairs of indices
RECURSIVE directReferences(_, _)
directReferences(s, i) ==
    IF i > Len(s) THEN <<>>
    ELSE IF ~ inReference(s[i]) THEN directReferences(s, i + 1)
    ELSE IF referenceDot(s, i) = 0
    THEN directReferences(s, runEnd(s, i, FALSE) + 1)
    ELSE <<SubSeq(s, i, runEnd(s, referenceDot(s, i) + 1, TRUE))>>
             \o directReferences(
                    s, runEnd(s, referenceDot(s, i) + 1, TRUE) + 1)

\* reference.startsWith('safe.')
startsWithSafe(reference) ==
    tokAt(reference, 1) = "safe" /\ tokAt(reference, 2) = "."

directReference(exploreName, joinName, reference) ==
    [ruleId |-> "e1",
     message |-> <<"direct table reference", joinName, exploreName, reference>>,
     severity |-> "warning",
     path |-> <<"explores", exploreName, "joins", joinName, "sql_on">>]

directReferencesOf(exploreName, joinName, references) ==
    [k \in 1..Len(references) |->
        directReference(exploreName, joinName, references[k])]

\* the body of the inner loop of checkJoinReferences
joinReferencesOf(exploreName, join) ==
    IF ~ truthy(join.sql_on) THEN <<>>
    ELSE directReferencesOf(exploreName, join.name,
             SelectSeq(directReferences(cleanedSql(join.sql_on[1]), 1),
                       LAMBDA r : ~ startsWithSafe(r)))

\* join.sql_on.replace is not a function
joinThrows(join) == join.sql_on = <<NotAString>>

checkJoinReferences(lookml) ==
    concat([e \in 1..Len(lookml.explores) |->
               concat([j \in 1..Len(lookml.explores[e].joins) |->
                          joinReferencesOf(lookml.explores[e].name,
                                           lookml.explores[e].joins[j])])])

checkJoinReferencesThrows(lookml) ==
    \E e \in 1..Len(lookml.explores) :
        \E j \in 1..Len(lookml.explores[e].joins) :
            joinThrows(lookml.explores[e].joins[j])

\* the indices where /\${([a-zA-Z0-9_]+)\.([a-zA-Z0-9_]+)}/ matches
referenceStarts(text) ==
    SelectSeq([i \in 1..Len(text) |-> i],
              LAMBDA i : /\ text[i] = "${"
                         /\ isName(tokAt(text, i + 1))
                         /\ tokAt(text, i + 2) = "."
                         /\ isName(tokAt(text, i + 3))
                         /\ tokAt(text, i + 4) \in {"}", "}}"})

\* the references that do not name the current view or TABLE, each as the
\* tokens of view.field
referencesAt(text, starts) ==
    [k \in 1..Len(starts) |-> SubSeq(text, starts[k] + 1, starts[k] + 3)]

\* the references to any view but TABLE, the current view included
extractCrossViewReferencesOfAnyView(text, currentViewName) ==
    SelectSeq(referencesAt(text, referenceStarts(text)),
              LAMBDA ref : ref[1] # "TABLE")

extractCrossViewReferences(text, currentViewName) ==
    SelectSeq(referencesAt(text, referenceStarts(text)),
              LAMBDA ref : ref[1] # currentViewName /\ ref[1] # "TABLE")

\* fieldType + 's'
Plural ==
    [dimension |-> "dimensions", dimension_group |-> "dimension_groups",
     measure |-> "measures", filter |-> "filters"]

crossReference(viewName, fieldType, fieldName, ref, part) ==
    [ruleId |-> "f1",
     message |-> <<"references another view", part, fieldType, fieldName,
                   viewName, ref>>,
     severity |-> "warning",
     path |-> <<"views", viewName, Plural[fieldType], fieldName, part>>]

crossReferencesOf(viewName, fieldType, fieldName, crossRefs, part) ==
    [k \in 1..Len(crossRefs) |->
        crossReference(viewName, fieldType, fieldName, crossRefs[k], part)]

\* the violations checkFieldsForCrossReferences adds for one part of a field
partReferences(viewName, fieldType, field, text, part) ==
    IF ~ truthy(text) THEN <<>>
    ELSE crossReferencesOf(viewName, fieldType, field.name,
             extractCrossViewReferences(text[1], viewName), part)

checkFieldsForCrossReferences(fields, viewName, fieldType) ==
    concat([k \in 1..Len(fields) |->
               partReferences(viewName, fieldType, fields[k], fields[k].sql,
                              "sql")
                   \o partReferences(viewName, fieldType, fields[k],
                                     fields[k].html, "html")])

\* the body of the loop of checkCrossViewReferences
crossViewReferencesOf(view) ==
    IF hasNoTable(view) THEN <<>>
    ELSE concat([k \in 1..4 |->
                    checkFieldsForCrossReferences(view.fields[k], view.name,
                                                  FieldTypes[k])])

checkCrossViewReferences(lookml) ==
    concat([k \in 1..Len(lookml.views) |->
               crossViewReferencesOf(lookml.views[k])])

ALL_RULES == {"k1", "e1", "f1"}

\* the words of the vocabulary for which ALL_RULES[id] is a property that
\* the object inherits: the value is truthy and has no check function
InheritedKeys == {"constructor"}

\* rule.check(lookml) throws: the id names no rule of ALL_RULES but a
\* property that the object inherits, or the join loop of E1 reaches a
\* sql_on that is no string
checkThrows(ruleId, lookml) ==
    \/ ruleId \in InheritedKeys
    \/ ruleId = "e1" /\ checkJoinReferencesThrows(lookml)

\* rule.check(lookml) inside the try of applyRules: the violations of the
\* rule, none when the call throws
check(ruleId, lookml) ==
    IF checkThrows(ruleId, lookml) THEN <<>>
    ELSE IF ruleId = "k1" THEN checkPrimaryKeys(lookml)
    ELSE IF ruleId = "f1" THEN checkCrossViewReferences(lookml)
    ELSE checkJoinReferences(lookml)

\* enabledRuleIds.filter(id => ALL_RULES[id])
rulesToApply(enabledRuleIds) ==
    SelectSeq(enabledRuleIds, LAMBDA id : id \in ALL_RULES \cup InheritedKeys)

\* the loop of applyRules
violationsOf(rules, lookml) ==
    concat([k \in 1..Len(rules) |-> check(rules[k], lookml)])

\* the loop inside one try: the first rule that throws ends the pass
applyRulesAbortingOnThrow(lookml, enabledRuleIds) ==
    violationsOf(
        SelectSeq(rulesToApply(enabledRuleIds),
                  LAMBDA id : \A k \in 1..Len(rulesToApply(enabledRuleIds)) :
                                  checkThrows(rulesToApply(enabledRuleIds)[k],
                                              lookml)
                                      => id # rulesToApply(enabledRuleIds)[k]
                                         /\ \E i \in 1..(k - 1) :
                                                rulesToApply(enabledRuleIds)[i]
                                                    = id),
        lookml)

applyRules(lookml, enabledRuleIds) ==
    violationsOf(rulesToApply(enabledRuleIds), lookml)

(***************************************************************************)
(* getLookMLDiagnostics (src/linter/diagnostics.ts).                       *)
(***************************************************************************)
\* new RegExp(`keyword:\\s+${name}\\s*\\{`).test(line)
declares(line, keyword, name) ==
    \E i \in 1..Len(line.toks) :
        opensAt(line.toks, i, keyword) /\ line.toks[nameIndex(line.toks, i)] = name

\* the patterns findLineByPath builds for a path, as <<keyword, name>>
FieldKeywordOf ==
    [dimensions |-> "dimension", measures |-> "measure", filters |-> "filter"]

patternsOf(path) ==
    IF path[1] = "views" /\ Len(path) >= 2
    THEN <<<<"view", path[2]>>>>
             \o (IF Len(path) >= 4 /\ path[3] \in DOMAIN FieldKeywordOf
                 THEN <<<<FieldKeywordOf[path[3]], path[4]>>>> ELSE <<>>)
    ELSE IF path[1] = "explores" /\ Len(path) >= 2
    THEN <<<<"explore", path[2]>>>>
             \o (IF Len(path) >= 4 /\ path[3] = "joins"
                 THEN <<<<"join", path[4]>>>> ELSE <<>>)
    ELSE <<>>

\* index (from 1) of the first line from i on that matches a pattern, 0 if none
firstDeclaring(lines, i, pattern) ==
    least({k \in i..Len(lines) : declares(lines[k], pattern[1], pattern[2])})

\* The loop of findLineByPath once the first pattern matched line first:
\* the second pattern is looked for from the next line on, and when it is
\* missing or not found the match of the first pattern is returned.
secondMatch(lines, first, patterns) ==
    IF Len(patterns) = 1 \/ firstDeclaring(lines, first + 1, patterns[2]) = 0
    THEN first
    ELSE firstDeclaring(lines, first + 1, patterns[2])

firstMatch(lines, patterns) ==
    IF patterns = <<>> \/ firstDeclaring(lines, 1, patterns[1]) = 0 THEN 1
    ELSE secondMatch(lines, firstDeclaring(lines, 1, patterns[1]), patterns)

\* findLineByPath, as a line number that counts from 0
findLineByPath(lines, path) == firstMatch(lines, patternsOf(path)) - 1

createDiagnosticFromViolation(lines, violation) ==
    [line |-> findLineByPath(lines, violation.path),
     message |-> violation.message,
     severity |-> violation.severity,
     code |-> violation.ruleId,
     source |-> "LookML Linter"]

\* violations.map(violation => createDiagnosticFromViolation(...))
diagnosticsOf(lines, violations) ==
    [k \in 1..Len(violations) |->
        createDiagnosticFromViolation(lines, violations[k])]

processRulesAndCreateDiagnostics(lines, parsedLookML, enabledRules) ==
    diagnosticsOf(lines, applyRules(parsedLookML, enabledRules))

\* the enabled rules, the disabled ones among them
activeRulesWithDisabled(enabledRules, disabledRules) == enabledRules

\* enabledRules.filter(rule => !disabledRules.includes(rule))
activeRules(enabledRules, disabledRules) ==
    SelectSeq(enabledRules, LAMBDA rule : ~ includes(disabledRules, rule))

\* parseLookML: the model the external parser resolved with, <<>> for null;
\* a rejection is caught and becomes null
parseLookML(outcome, external) ==
    IF outcome = "resolves" THEN <<external>> ELSE <<>>

\* the model the rules are applied to: that of the external parser, or
\* that of the fallback parser when the external one gave none
lookmlData(lines, outcome, external) ==
    IF parseLookML(outcome, external) # <<>>
    THEN parseLookML(outcome, external)[1]
    ELSE parseLookMLSync(getText(lines))

getLookMLDiagnostics(lines, enabledRules, disabledRules, outcome, external) ==
    processRulesAndCreateDiagnostics(
        lines, lookmlData(lines, outcome, external),
        activeRules(enabledRules, disabledRules))

\* the default of the setting lookml.linter.rules
DefaultRules == <<"k1", "e1", "f1">>

EmptyModel == [views |-> <<>>, explores |-> <<>>, models |-> <<>>]

(***************************************************************************)
(* Input documents.  A document is a view whose body is a sequence of      *)
(* items: at most MaxFields plain fields of FieldPalette, in any order and *)
(* with repetitions; or at most MaxItems items of TextPalette (fields with *)
(* SQL and HTML segments, nested blocks, comments, blank lines, a derived  *)
(* table, the start of a second view or of an explore), after a plain      *)
(* field or after nothing; or the fields of one of ExampleBodies.          *)
(***************************************************************************)
ln(ind, toks) == [ind |-> ind, toks |-> toks]

opener(ind, type, name) == ln(ind, <<type, ":", SP, name, SP, "{">>)

prop(ind, name, value) == ln(ind, <<name, ":", SP>> \o value)

closer(ind) == ln(ind, <<"}">>)

plainField(type, name, kind) ==
    <<opener(2, type, name), prop(4, "type", <<kind>>), closer(2)>>

FieldPalette ==
    << plainField("filter", "id", "string"),
       plainField("parameter", "id", "unquoted"),
       plainField("dimension", "zebra", "string"),
       \* not yet formatted
       << opener(0, "dimension", "apple"),
          ln(0, <<"type", ":", "number">>),
          closer(0) >>,
       plainField("dimension_group", "created", "time"),
       plainField("measure", "total_sales", "number") >>

TextPalette ==
    << \* 1
       plainField("dimension", "zebra", "string"),
       \* 2: a one-line sql property followed by another property
       << opener(2, "measure", "total_sales"),
          prop(4, "sql", <<"amount", SP, ";;">>),
          prop(4, "type", <<"sum">>),
          closer(2) >>,
       \* 3: a one-line sql property with a substitution token
       << opener(2, "dimension_group", "created"),
          prop(4, "type", <<"time">>),
          prop(4, "sql", <<"${", "TABLE", "}", ".", "created", SP, ";;">>),
          closer(2) >>,
       \* 4: a nested block
       << opener(2, "filter", "id"),
          ln(4, <<"suggestions", ":", SP, "{">>),
          prop(6, "persist_for", <<"day">>),
          closer(4),
          closer(2) >>,
       \* 5: a multi-line sql segment with substitution tokens
       << opener(2, "measure", "apple"),
          ln(4, <<"sql", ":">>),
          ln(6, <<"${", "total_sales", "}">>),
          ln(6, <<"+", SP, "${", "count", "}", SP, ";;">>),
          closer(2) >>,
       \* 6: a multi-line html segment with a templating tag
       << opener(2, "dimension", "id"),
          ln(4, <<"html", ":">>),
          ln(6, <<"{{", SP, "value", SP, "}}", SP, ";;">>),
          closer(2) >>,
       \* 7: a comment
       << ln(2, <<"#", SP, "note">>) >>,
       \* 8: a blank line
       << ln(0, <<>>) >>,
       \* 9: a derived table
       << ln(2, <<"derived_table", ":", SP, "{">>),
          ln(4, <<"sql", ":">>),
          ln(6, <<"select", SP, "id">>),
          ln(6, <<"from", SP, "orders">>),
          ln(4, <<";;">>),
          closer(2) >>,
       \* 10: the end of the view, and a second view that starts with a field
       << closer(0),
          ln(0, <<>>),
          ln(0, <<"view", ":", SP, "created", SP, "{">>),
          opener(2, "dimension", "apple"),
          prop(4, "type", <<"number">>),
          closer(2) >>,
       \* 11: the end of the view, and an explore that is not yet formatted
       << closer(0),
          ln(0, <<"explore", ":", "orders", SP, "{">>),
          ln(0, <<"label", ":", "id">>) >>,
       \* 12: a multi-line sql segment with a keyword and an operator next
       \* to a substitution token, and with a keyword that occurs twice
       << opener(2, "dimension", "id"),
          ln(4, <<"sql", ":">>),
          ln(6, <<"select", SP, "${", "TABLE", "}", ".", "id", ">", "1">>),
          ln(6, <<"from", SP, "orders", ",", SP, "(", "select", SP, "id",
                  SP, "from", SP, "orders", ")", SP, ";;">>),
          closer(2) >>,
       \* 13: a one-line sql property outside the fields, followed by
       \* another property
       << ln(2, <<"derived_table", ":", SP, "{">>),
          prop(4, "sql_trigger_value", <<"select", SP, "1", SP, ";;">>),
          prop(4, "persist_for", <<"day">>),
          closer(2) >> >>

Bodies(palette, max) ==
    {concat([k \in 1..Len(b) |-> palette[b[k]]]) :
        b \in UNION {[1..n -> 1..Len(palette)] : n \in 0..max}}

viewLines(name, body) ==
    <<ln(0, <<"view", ":", SP, name, SP, "{">>)>> \o body \o <<closer(0)>>

\* views of three fields: a measure declared before two dimensions, and
\* three categories declared in the reverse of the fixed order, two of the
\* fields having the same name
ExampleBodies ==
    { FieldPalette[6] \o FieldPalette[3] \o FieldPalette[4],
      FieldPalette[6] \o FieldPalette[2] \o FieldPalette[1] }

\* views of two dimensions that sorting exchanges, with a comment directly
\* above the second field, directly above the first field, and above the
\* second field with a blank line in between
CommentBodies ==
    { TextPalette[1] \o TextPalette[7] \o FieldPalette[4],
      TextPalette[7] \o TextPalette[1] \o FieldPalette[4],
      TextPalette[1] \o TextPalette[7] \o TextPalette[8] \o FieldPalette[4] }

InputDocs ==
    {viewLines("orders", b) : b \in Bodies(FieldPalette, MaxFields)}
        \cup {viewLines("orders", pre \o b) :
                  pre \in {<<>>, TextPalette[1]},
                  b \in Bodies(TextPalette, MaxItems)}
        \cup {viewLines("orders", b) : b \in ExampleBodies \cup CommentBodies}

(***************************************************************************)
(* Documents and settings of the linter: the empty text, texts with        *)
(* unmatched or missing braces, unterminated SQL segments in a field and   *)
(* in a derived table, a malformed field name, and well-formed views and   *)
(* explores.                                                               *)
(***************************************************************************)
tableView(name, body) ==
    <<opener(0, "view", name),
      prop(2, "sql_table_name", <<name, SP, ";;">>)>> \o body \o <<closer(0)>>

pkField(name) ==
    <<opener(2, "dimension", name),
      prop(4, "primary_key", <<"yes">>),
      prop(4, "sql", <<"${", "TABLE", "}", ".", "id", SP, ";;">>),
      closer(2)>>

typedField(type, name, kind) ==
    <<opener(2, type, name), prop(4, "type", <<kind>>), closer(2)>>

crossField ==
    <<opener(2, "measure", "total_sales"),
      prop(4, "type", <<"sum">>),
      prop(4, "sql", <<"${", "users", ".", "amount", "}", SP, ";;">>),
      closer(2)>>

\* a field whose type follows a nested block
linkedField ==
    <<opener(2, "dimension", "pk"),
      ln(4, <<"link", ":", SP, "{">>),
      prop(6, "label", <<"id">>),
      closer(4),
      prop(4, "type", <<"number">>),
      prop(4, "primary_key", <<"yes">>),
      closer(2)>>

\* a field that is commented out
commentedField ==
    <<ln(2, <<"#", SP, "dimension", ":", SP, "id", SP, "{">>),
      ln(2, <<"#", SP, SP, SP, "type", ":", SP, "string">>),
      ln(2, <<"#", SP, "}">>)>>

ordersExplore ==
    <<EmptyLine,
      opener(0, "explore", "orders"),
      opener(2, "join", "users"),
      prop(4, "sql_on", <<"orders", ".", "id", SP, "=", SP,
                          "users", ".", "id", SP, ";;">>),
      prop(4, "relationship", <<"many_to_one">>),
      closer(2),
      closer(0)>>

WellFormedDocs ==
    { tableView("orders", pkField("pk")) \o ordersExplore,
      tableView("orders", linkedField),
      tableView("orders", pkField("pk") \o commentedField),
      viewLines("orders", typedField("dimension", "id", "number"))
          \o viewLines("users", typedField("dimension", "id", "string")) }

MalformedDocs ==
    { <<EmptyLine>>,
      <<closer(0), closer(2)>>
          \o tableView("orders", pkField("id") \o crossField),
      <<opener(0, "view", "broken"),
        opener(2, "dimension", "missing_type"),
        prop(4, "sql", <<"${", "TABLE", "}", ".", "id">>),
        closer(2),
        EmptyLine,
        opener(2, "dimension", "another_field"),
        prop(4, "type", <<"string">>)>>,
      tableView("orders",
                <<opener(2, "dimension", "id"),
                  prop(4, "sql", <<"${", "users", ".", "id", "}">>),
                  closer(2)>>),
      <<opener(0, "view", "orders"),
        ln(2, <<"dimension", ":", SP, ".", "id", SP, "{">>),
        prop(4, "type", <<"string">>),
        closer(2),
        closer(0)>>,
      <<opener(0, "view", "orders"),
        ln(2, <<"derived_table", ":", SP, "{">>),
        ln(4, <<"sql", ":">>),
        ln(6, <<"select", SP, "id">>),
        closer(2),
        prop(2, "label", <<"id">>),
        closer(0)>> }

LintDocs == WellFormedDocs \cup MalformedDocs

RuleIds == {"k1", "f1", "zz"}

RuleLists ==
    {DefaultRules, <<"constructor", "e1">>, <<"zz", "k1", "f1">>}
        \cup UNION {[1..n -> RuleIds] : n \in 0..MaxRules}

DisabledLists == {<<>>, <<"k1">>, <<"e1">>}

\* models the external parser resolves with: no declaration at all; a view
\* with a table, no primary key and a measure that refers to another
\* view, and an explore whose first join has a direct reference and whose
\* second join has a sql_on that is no string
ExternalModels ==
    { EmptyModel,
      [views |-> <<[name |-> "orders", sql_table_name |-> <<<<"orders">>>>,
                    derived_table |-> <<>>,
                    fields |-> <<<<>>, <<>>,
                                 <<[name |-> "total_sales",
                                    type |-> <<<<"sum">>>>,
                                    sql |-> <<<<"${", "users", ".", "amount",
                                                "}">>>>,
                                    primary_key |-> <<>>, label |-> <<>>,
                                    description |-> <<>>, html |-> <<>>]>>,
                                 <<>>>>]>>,
       explores |-> <<[name |-> "orders", view_name |-> <<>>,
                       joins |-> <<[name |-> "users",
                                    sql_on |-> <<<<"orders", ".", "id", "=",
                                                   "users", ".", "id">>>>,
                                    relationship |-> <<>>],
                                   [name |-> "created",
                                    sql_on |-> <<NotAString>>,
                                    relationship |-> <<>>]>>]>>,
       models |-> <<>>] }

\* Documents for the rules, one family for each rule.  For K1: a view
\* with a table name, with a derived table or with neither, and at most
\* MaxFields dimensions of KeyPalette.
keyField(name, key) ==
    <<opener(2, "dimension", name)>>
        \o (IF key = "" THEN <<>> ELSE <<prop(4, "primary_key", <<key>>)>>)
        \o <<prop(4, "type", <<"number">>), closer(2)>>

KeyPalette ==
    << keyField("pk", "yes"), keyField("PK", "yes"), keyField("pk1", "true"),
       keyField("id", "yes"), keyField("pk_id", "yes"), keyField("pk", "no"),
       keyField("id", "") >>

derivedView(name, body) == viewLines(name, TextPalette[9] \o body)

KeyDocs ==
    UNION {{tableView("orders", b), derivedView("orders", b),
            viewLines("orders", b)} : b \in Bodies(KeyPalette, MaxFields)}

\* For E1: an explore with one join whose sql_on holds one or two
\* references of ReferencePalette, separated by one of Separators.
ReferencePalette ==
    << <<"orders", ".", "id">>,
       <<"${", "users", ".", "id", "}">>,
       <<"safe", ".", "users", ".", "id">> >>

Separators == << <<"=">>, <<SP, "=", SP>>, <<SP, "AND", SP>> >>

joinExplore(sql_on) ==
    <<opener(0, "explore", "orders"),
      opener(2, "join", "users"),
      prop(4, "sql_on", sql_on \o <<SP, ";;">>),
      closer(2),
      closer(0)>>

JoinDocs ==
    {joinExplore(ReferencePalette[a]) : a \in 1..Len(ReferencePalette)}
        \cup {joinExplore(ReferencePalette[a] \o Separators[s]
                              \o ReferencePalette[b]) :
                  a, b \in 1..Len(ReferencePalette), s \in 1..Len(Separators)}

\* For F1: a view with or without a table name and at most MaxFields
\* fields of CrossPalette, whose sql and html refer to another view, to
\* the view itself and to TABLE.
CrossPalette ==
    << <<opener(2, "dimension", "id"),
         prop(4, "sql", <<"${", "users", ".", "id", "}", SP, ";;">>),
         closer(2)>>,
       <<opener(2, "measure", "total_sales"),
         prop(4, "type", <<"sum">>),
         prop(4, "sql", <<"${", "users", ".", "amount", "}", SP, "+", SP,
                          "${", "orders", ".", "amount", "}", SP, ";;">>),
         closer(2)>>,
       <<opener(2, "dimension_group", "created"),
         prop(4, "sql", <<"${", "TABLE", "}", ".", "created", SP, "+", SP,
                          "${", "TABLE", ".", "id", "}", SP, ";;">>),
         closer(2)>>,
       <<opener(2, "filter", "id"),
         prop(4, "html", <<"{{", SP, "value", SP, "}}", SP,
                           "${", "users", ".", "id", "}", SP, ";;">>),
         closer(2)>>,
       <<opener(2, "measure", "apple"),
         prop(4, "sql", <<"${", "users", ".", "id", "}", SP, "+", SP,
                          "${", "users", ".", "id", "}", SP, ";;">>),
         prop(4, "html", <<"${", "created", ".", "id", "}", SP, ";;">>),
         closer(2)>> >>

CrossDocs ==
    UNION {{tableView("orders", b), viewLines("orders", b)} :
              b \in Bodies(CrossPalette, MaxFields)}

PredicateDocs == KeyDocs \cup JoinDocs \cup CrossDocs

\* Texts the editor holds in turn while lint runs are in flight: a view
\* whose primary key is misnamed, a view without a primary key, and a
\* text without violations
EventDocs ==
    { tableView("orders", pkField("id")),
      <<EmptyLine>> \o tableView("orders", <<>>),
      <<EmptyLine>> }

(***************************************************************************)
(* The state machine: the editor holds a document and runs the formatter   *)
(* on it, replacing the text by the result.  prev is the text the last run *)
(* was given, edits the edit list it returned.                             *)
(***************************************************************************)
\* lint holds the settings of the linter (rules, disabledRules), what the
\* last lint pass was given (the text, the outcome of the external parser
\* and the model it resolved with) and the diagnostics the pass produced;
\* parser is "" before the first pass.
NoLint(rules, disabledRules) ==
    [rules |-> rules, disabledRules |-> disabledRules, parser |-> "",
     text |-> <<>>, external |-> EmptyModel, diagnostics |-> <<>>]

\* the LookMLLinter after its construction: the setting
\* lookml.linter.enabled, the runs of lintDocument that await the parser,
\* and the entry of the document in the diagnostic collection (<<>> when
\* it has none)
NoLinter(enabled) == [enabled |-> enabled, pending |-> <<>>, collection |-> <<>>]

Init ==
    /\ doc \in InputDocs
    /\ prev = doc
    /\ cfg \in [groupFieldsByType : BOOLEAN, sortFields : BOOLEAN]
    /\ runs = 0
    /\ edits = <<>>
    /\ lint = NoLint(DefaultRules, <<>>)
    /\ linter = NoLinter(TRUE)

\* provideDocumentFormattingEdits, and the editor applying the edits
Format ==
    /\ runs < MaxRuns
    /\ edits' = format(doc)
    /\ doc' = IF edits' = <<>> THEN doc ELSE edits'[1]
    /\ prev' = doc
    /\ runs' = runs + 1
    /\ UNCHANGED <<cfg, lint, linter>>

Next == Format

Spec == Init /\ [][Next]_vars

(***************************************************************************)
(* The editor with the linter.  A lint pass reads the text, asks the       *)
(* external parser, which resolves with a model, resolves to null or       *)
(* rejects, and stores the diagnostics it computes.                        *)
(***************************************************************************)
LintInit ==
    /\ doc \in LintDocs
    /\ prev = doc
    /\ cfg \in [groupFieldsByType : BOOLEAN, sortFields : BOOLEAN]
    /\ runs = 0
    /\ edits = <<>>
    /\ lint \in {NoLint(DefaultRules, d) : d \in DisabledLists}
    /\ linter = NoLinter(TRUE)

\* getLookMLDiagnostics
Lint(outcome, external) ==
    /\ lint' = [lint EXCEPT
                   !.parser = outcome,
                   !.text = doc,
                   !.external = external,
                   !.diagnostics =
                       getLookMLDiagnostics(doc, lint.rules, lint.disabledRules,
                                            outcome, external)]
    /\ UNCHANGED <<doc, prev, cfg, runs, edits, linter>>

LintNext ==
    \/ Format
    \/ \E external \in ExternalModels : Lint("resolves", external)
    \/ \E outcome \in {"null", "rejects"} : Lint(outcome, EmptyModel)

LintSpec == LintInit /\ [][LintNext]_vars

(***************************************************************************)
(* The linter alone, under every setting of its rules: the formatter has   *)
(* its default options and is never run.                                   *)
(***************************************************************************)
RuleInit ==
    /\ doc \in LintDocs
    /\ prev = doc
    /\ cfg = [groupFieldsByType |-> TRUE, sortFields |-> TRUE]
    /\ runs = 0
    /\ edits = <<>>
    /\ lint \in {NoLint(r, d) : r \in RuleLists, d \in DisabledLists}
    /\ linter = NoLinter(TRUE)

RuleNext ==
    \/ \E external \in ExternalModels : Lint("resolves", external)
    \/ \E outcome \in {"null", "rejects"} : Lint(outcome, EmptyModel)

RuleSpec == RuleInit /\ [][RuleNext]_vars

\* the passes of the linter under the default settings, on the documents
\* for the rules
PredicateInit ==
    /\ doc \in PredicateDocs
    /\ prev = doc
    /\ cfg = [groupFieldsByType |-> TRUE, sortFields |-> TRUE]
    /\ runs = 0
    /\ edits = <<>>
    /\ lint = NoLint(DefaultRules, <<>>)
    /\ linter = NoLinter(TRUE)

PredicateSpec == PredicateInit /\ [][RuleNext]_vars

(***************************************************************************)
(* The LookMLLinter (src/linter/index.ts).  A call of lintDocument runs up *)
(* to its await and is resumed when the parser has answered; the runs in   *)
(* flight are resumed in any order.  The external parser gives no model,   *)
(* so that the diagnostics of a run are a function of the text it read.    *)
(***************************************************************************)
\* lintDocument up to the await of getLookMLDiagnostics: the entry is
\* deleted when linting is off, otherwise the text and the rule settings
\* are read and the run awaits the parser
lintDocument(l, document) ==
    IF ~ l.enabled THEN [l EXCEPT !.collection = <<>>]
    ELSE [l EXCEPT !.pending =
              Append(@, [content |-> document, rules |-> lint.rules,
                         disabledRules |-> lint.disabledRules])]

\* the rest of lintDocument, which stores the diagnostics whatever run
\* stored the entry before
lintDocumentResumed(l, k, outcome) ==
    [l EXCEPT
        !.pending = SubSeq(@, 1, k - 1) \o SubSeq(@, k + 1, Len(@)),
        !.collection =
            <<processRulesAndCreateDiagnostics(
                  doc,
                  lookmlData(l.pending[k].content, outcome, EmptyModel),
                  activeRules(l.pending[k].rules,
                              l.pending[k].disabledRules))>>]

mayStart == ~ linter.enabled \/ Len(linter.pending) < MaxPending

onDidChangeTextDocument(content) ==
    /\ mayStart
    /\ content # doc
    /\ doc' = content
    /\ linter' = lintDocument(linter, content)
    /\ UNCHANGED <<prev, cfg, runs, edits, lint>>

onDidSaveTextDocument ==
    /\ mayStart
    /\ linter' = lintDocument(linter, doc)
    /\ UNCHANGED <<doc, prev, cfg, runs, edits, lint>>

\* a change of a setting lookml.linter.*: lintAllDocuments
onDidChangeConfiguration(enabled) ==
    /\ ~ enabled \/ Len(linter.pending) < MaxPending
    /\ linter' = lintDocument([linter EXCEPT !.enabled = enabled], doc)
    /\ UNCHANGED <<doc, prev, cfg, runs, edits, lint>>

\* the parser answers run k
Resume(k, outcome) ==
    /\ k \in 1..Len(linter.pending)
    /\ linter' = lintDocumentResumed(linter, k, outcome)
    /\ UNCHANGED <<doc, prev, cfg, runs, edits, lint>>

EventInit ==
    /\ doc \in EventDocs
    /\ prev = doc
    /\ cfg = [groupFieldsByType |-> TRUE, sortFields |-> TRUE]
    /\ runs = 0
    /\ edits = <<>>
    /\ lint = NoLint(DefaultRules, <<>>)
    /\ linter \in {NoLinter(enabled) : enabled \in BOOLEAN}

EventNext ==
    \/ \E content \in EventDocs : onDidChangeTextDocument(content)
    \/ onDidSaveTextDocument
    \/ \E enabled \in BOOLEAN : onDidChangeConfiguration(enabled)
    \/ \E k \in 1..MaxPending, outcome \in {"null", "rejects"} :
           Resume(k, outcome)

EventSpec == EventInit /\ [][EventNext]_vars

(***************************************************************************)
(* Observations used by the properties.  Every property relates prev, the  *)
(* text given to the last run, to doc, the text that run produced.         *)
(***************************************************************************)
advanced == cfg.groupFieldsByType \/ cfg.sortFields

inputViews == parseViews(prev)

\* the lines of doc written for view k of prev: what formatView pushed in
\* the advanced mode, the lines of the view itself in the simple mode
\* (formatLines writes one line for each line it reads)
viewOutputOf(views, k) ==
    IF advanced
    THEN SubSeq(doc,
            Len(outputUpTo(prev, views, k - 1))
                + (views[k].startLine - currentLineAt(views, k)) + 1,
            Len(outputUpTo(prev, views, k)))
    ELSE SubSeq(doc, views[k].startLine, views[k].endLine)

viewOutput(k) == viewOutputOf(inputViews, k)

text(l) == trimEnd(l.toks)

isFieldOpener(l) ==
    /\ isBlockStart(text(l))
    /\ ~ isComment(text(l))
    /\ isFieldType(blockHeader(text(l)).type)

\* the fields of a piece of text, as [type, name], in the order of the text
fieldOpeners(lines) ==
    LET o == SelectSeq(lines, isFieldOpener)
    IN  [k \in 1..Len(o) |-> blockHeader(text(o[k]))]

categoryRank(type) ==
    CASE type = "filter" -> 1
      [] type = "parameter" -> 2
      [] type \in {"dimension", "dimension_group"} -> 3
      [] type = "measure" -> 4
      [] OTHER -> 5

SectionNames == <<"Filters", "Parameters", "Dimensions", "Measures">>

countLines(lines, t) == Cardinality({p \in 1..Len(lines) : text(lines[p]) = t})

\* number of places where the block b occurs in lines
occurrences(lines, b) ==
    Cardinality({p \in 1..(Len(lines) - Len(b) + 1) :
                    SubSeq(lines, p, p + Len(b) - 1) = b})

\* Reference reading of the segments of a text: a segment is opened by a
\* property of SqlProps that does not end with the terminator on its own
\* line, and runs up to the first line that ends with the terminator.
opensSegment(t) ==
    /\ Len(t) >= 2
    /\ t[1] \in SqlProps
    /\ SkipBlanks(t, 1) <= Len(t)
    /\ t[SkipBlanks(t, 1)] = ":"
    /\ ~ endsWithTerminator(t)

RECURSIVE continuationLines(_, _, _)
continuationLines(lines, i, inSegment) ==
    IF i > Len(lines) THEN {}
    ELSE LET t == text(lines[i])
         IN  IF inSegment
             THEN {i} \cup continuationLines(lines, i + 1,
                                             ~ endsWithTerminator(t))
             ELSE continuationLines(lines, i + 1, opensSegment(t))

isPropertyLine(t) ==
    /\ Len(t) >= 2
    /\ IsWord(t[1])
    /\ SkipBlanks(t, 1) <= Len(t)
    /\ t[SkipBlanks(t, 1)] = ":"
    /\ ~ isBlockStart(t)

\* the property lines outside the segments
plainProperties(lines) ==
    {i \in 1..Len(lines) :
        /\ i \notin continuationLines(lines, 1, FALSE)
        /\ isPropertyLine(text(lines[i]))
        /\ ~ opensSegment(text(lines[i]))
        /\ ~ endsWithTerminator(text(lines[i]))}

\* the lines that carry the content of a segment
segmentLines(lines) ==
    continuationLines(lines, 1, FALSE)
        \cup {i \in 1..Len(lines) :
                /\ isPropertyLine(text(lines[i]))
                /\ text(lines[i])[1] \in SqlProps
                /\ endsWithTerminator(text(lines[i]))}

propertyParts(t) ==
    LET c == IndexOfTok(t, ":")
    IN  [name |-> trim(SubSeq(t, 1, c - 1)),
         value |-> trim(SubSeq(t, c + 1, Len(t)))]

closingOf(t) ==
    CASE t = "${" -> "}" [] t = "{%" -> "%}" [] t = "{{" -> "}}"

\* the opaque atoms of a line: from an opening token to its closing token
atoms(t) ==
    {SubSeq(t, a, b) : <<a, b>> \in
        {ab \in (1..Len(t)) \X (1..Len(t)) :
            /\ t[ab[1]] \in {"${", "{%", "{{"}
            /\ ab[1] < ab[2]
            /\ t[ab[2]] = closingOf(t[ab[1]])
            /\ \A m \in (ab[1] + 1)..(ab[2] - 1) :
                  t[m] # closingOf(t[ab[1]])}}

occursIn(a, t) ==
    \E p \in 1..(Len(t) - Len(a) + 1) : SubSeq(t, p, p + Len(a) - 1) = a

(***************************************************************************)
(* The properties.                                                         *)
(***************************************************************************)
\* C1: formatting is idempotent: from the second run on, the text does not
\* change any more and format returns an empty edit list.
C1_Idempotent == runs >= 2 => (doc = prev /\ edits = <<>>)

\* C2: with groupFieldsByType, after any number of runs the output of each
\* view contains each section marker (header and footer of Filters,
\* Parameters, Dimensions, Measures) at most once.
C2_MarkersNotDuplicated ==
    (runs >= 1 /\ cfg.groupFieldsByType) =>
        \A k \in 1..Len(inputViews) : \A n \in 1..Len(SectionNames) :
            /\ countLines(viewOutput(k), sectionHeader(SectionNames[n])) <= 1
            /\ countLines(viewOutput(k), sectionFooter(SectionNames[n])) <= 1

\* C3: every property line "name: value" outside the segments is in the
\* output with the same name and the same value.
C3_PropertiesPreserved ==
    runs >= 1 =>
        \A i \in plainProperties(prev) :
            \E j \in 1..Len(doc) :
                /\ hasColon(text(doc[j]))
                /\ propertyParts(text(doc[j])) = propertyParts(text(prev[i]))

\* C4: every comment line inside a view of the input, other than a
\* generated marker, is in the output of the same view with the same text.
C4_CommentsPreserved ==
    runs >= 1 =>
        \A k \in 1..Len(inputViews) :
            \A i \in inputViews[k].startLine..inputViews[k].endLine :
                (isComment(text(prev[i]))
                 /\ ~ isFormatterGeneratedComment(text(prev[i])))
                => \E j \in 1..Len(viewOutput(k)) :
                      text(viewOutput(k)[j]) = text(prev[i])

\* the fields fs of a view against the output out of the view
fieldsPreservedIn(fs, out) ==
    LET block == [i \in 1..Len(fs) |-> addFormattedFieldContent(<<>>, fs[i])]
    IN  /\ Len(fieldOpeners(out)) = Len(fs)
        /\ \A i \in 1..Len(fs) :
              occurrences(out, block[i])
                = Cardinality({j \in 1..Len(fs) : block[j] = block[i]})

fieldsPreserved(views) ==
    \A k \in 1..Len(views) :
        fieldsPreservedIn(views[k].fields, viewOutputOf(views, k))

\* C5: with grouping or sorting, the fields emitted for a view are exactly
\* the fields parsed from it: the output of the view has as many field
\* openers as the view has fields, and the block of each field (opening
\* line, body, closing brace) is in it as many times as the view has
\* fields with that block.
C5_FieldsPreserved ==
    (runs >= 1 /\ advanced) => fieldsPreserved(inputViews)

\* a run with grouping or sorting that reorders a view of three fields of
\* which two have the same name
C5_Witness ==
    /\ runs = 1
    /\ advanced
    /\ doc # prev
    /\ \E k \in 1..Len(inputViews) :
          LET fs == inputViews[k].fields
          IN  /\ Len(fs) = 3
              /\ \E i, j \in 1..3 : i # j /\ fs[i].name = fs[j].name
              /\ fieldOpeners(viewOutput(k))
                    # [i \in 1..3 |-> [type |-> fs[i].type, name |-> fs[i].name]]

\* C6: every opaque atom of a line of a segment is in the output with
\* exactly the same characters.
C6_AtomsPreserved ==
    runs >= 1 =>
        \A i \in segmentLines(prev) : \A a \in atoms(text(prev[i])) :
            \E j \in 1..Len(doc) : occursIn(a, doc[j].toks)

\* C7: with groupFieldsByType, for every view and every category that has
\* a field in the view, the output of the view has the header of the
\* category before the first field of the category and its footer after
\* the last one.
C7_SectionsMarked ==
    (runs >= 1 /\ cfg.groupFieldsByType) =>
        \A k \in 1..Len(inputViews) : \A n \in 1..Len(SectionNames) :
            LET out == viewOutput(k)
                at == {p \in 1..Len(out) :
                          /\ isFieldOpener(out[p])
                          /\ categoryRank(blockHeader(text(out[p])).type) = n}
            IN  at # {} =>
                  \E h, f \in 1..Len(out) :
                      /\ text(out[h]) = sectionHeader(SectionNames[n])
                      /\ text(out[f]) = sectionFooter(SectionNames[n])
                      /\ \A p \in at : h < p /\ p < f

\* the ranks of the categories of the field openers o do not decrease
ranksInOrder(o) ==
    \A i, j \in 1..Len(o) :
        i < j => categoryRank(o[i].type) <= categoryRank(o[j].type)

categoriesInOrder(views) ==
    \A k \in 1..Len(views) : ranksInOrder(fieldOpeners(viewOutputOf(views, k)))

\* C8: with grouping, in the output of every view the filters come before
\* the parameters, these before the dimensions and dimension_groups, these
\* before the measures, these before the other fields.
C8_CategoryOrder ==
    (runs >= 1 /\ cfg.groupFieldsByType) => categoriesInOrder(inputViews)

\* a run with grouping on a view whose three fields are of three
\* categories, the source giving them in another order than the fixed one
C8_Witness ==
    /\ runs = 1
    /\ cfg.groupFieldsByType
    /\ \E k \in 1..Len(inputViews) :
          LET fs == inputViews[k].fields
          IN  /\ Len(fs) = 3
              /\ Cardinality({categoryRank(fs[i].type) : i \in 1..3}) = 3
              /\ categoryRank(fs[1].type) > categoryRank(fs[3].type)
              /\ Len(fieldOpeners(viewOutput(k))) = 3

\* C9: with sortFields, the fields of each category section are in
\* non-decreasing order of name.
C9_SortedWithinSection ==
    (runs >= 1 /\ cfg.sortFields) =>
        \A k \in 1..Len(inputViews) :
            LET o == fieldOpeners(viewOutput(k))
            IN  \A i \in 1..(Len(o) - 1) :
                    categoryRank(o[i].type) = categoryRank(o[i + 1].type)
                    => localeCompare(o[i].name, o[i + 1].name) <= 0

\* C10: with grouping and sorting, the dimensions and dimension_groups of a
\* view are emitted as one list ordered by name, next to one another.
C10_DimensionsInterleaved ==
    (runs >= 1 /\ cfg.groupFieldsByType /\ cfg.sortFields) =>
        \A k \in 1..Len(inputViews) :
            LET o == fieldOpeners(viewOutput(k))
                dims == {i \in 1..Len(o) :
                            o[i].type \in {"dimension", "dimension_group"}}
            IN  \A i, j \in dims :
                    i < j =>
                        /\ localeCompare(o[i].name, o[j].name) <= 0
                        /\ \A m \in i..j : m \in dims

\* the ranks of the categories of the elements of s that are of one of the
\* categories a and b, in the order of s
ranksAmong(s, a, b) ==
    LET r == [i \in 1..Len(s) |-> categoryRank(s[i].type)]
        among(x) == x \in {a, b}
    IN  SelectSeq(r, among)

\* the positions of the field openers of lines
openerPositions(lines) == {p \in 1..Len(lines) : isFieldOpener(lines[p])}

\* between two field openers that follow one another there is one blank line
singleBlankBetween(lines) ==
    \A p, q \in openerPositions(lines) :
        (p < q /\ \A m \in (p + 1)..(q - 1) : m \notin openerPositions(lines))
        => Cardinality({m \in p..q : text(lines[m]) = <<>>}) = 1

notGroupedIn(fs, inp, out) ==
    /\ \A p \in 1..Len(out) :
          isFormatterGeneratedComment(text(out[p]))
          => \E q \in 1..Len(inp) : text(inp[q]) = text(out[p])
    /\ \A a, b \in 1..5 :
          ranksAmong(fieldOpeners(out), a, b) = ranksAmong(fs, a, b)
    /\ advanced => singleBlankBetween(out)

notGrouped(views) ==
    \A k \in 1..Len(views) :
        notGroupedIn(views[k].fields,
                     SubSeq(prev, views[k].startLine, views[k].endLine),
                     viewOutputOf(views, k))

\* C11: without groupFieldsByType no marker is generated, a field never
\* moves across a field of another category (with or without sortFields),
\* and two fields that follow one another in a view that formatView wrote
\* are separated by one blank line.
C11_NotGrouped ==
    (runs >= 1 /\ ~ cfg.groupFieldsByType) => notGrouped(inputViews)

\* one space after the first colon, one space before a final terminator
spaced(t) ==
    LET c == IndexOfTok(t, ":")
    IN  /\ c < Len(t) =>
              /\ t[c + 1] = SP
              /\ c + 2 <= Len(t) => t[c + 2] # SP
        /\ (endsWithTerminator(t) /\ Len(t) >= c + 3) =>
              /\ t[Len(t) - 1] = SP
              /\ t[Len(t) - 2] # SP

\* C12: in the output every property line and every block-opening line
\* outside the segments has one space after its first colon and, if it
\* ends with the terminator, one space before it.
C12_SpacingNormalized ==
    runs >= 1 =>
        \A j \in 1..Len(doc) :
            (/\ j \notin continuationLines(doc, 1, FALSE)
             /\ ~ isComment(text(doc[j]))
             /\ \/ isPropertyLine(text(doc[j]))
                \/ isBlockStart(text(doc[j])) /\ hasColon(text(doc[j])))
            => spaced(text(doc[j]))

\* Reference reading of the SQL segments (the segments of the properties
\* of SqlProps other than html)
RECURSIVE sqlLines(_, _, _)
sqlLines(lines, i, inSegment) ==
    IF i > Len(lines) THEN {}
    ELSE LET t == text(lines[i])
         IN  IF inSegment
             THEN {i} \cup sqlLines(lines, i + 1, ~ endsWithTerminator(t))
             ELSE sqlLines(lines, i + 1, opensSegment(t) /\ t[1] # "html")

\* the positions of t that are inside an opaque atom
atomPositions(t) ==
    {i \in 1..Len(t) :
        \E a \in 1..i : \E b \in i..Len(t) :
            /\ t[a] \in {"${", "{%", "{{"}
            /\ a < b
            /\ t[b] = closingOf(t[a])
            /\ \A m \in (a + 1)..(b - 1) : t[m] # closingOf(t[a])}

\* every keyword that occurs at a position outside the atoms is in upper case
keywordsUpper(t) ==
    \A i \in (1..Len(t)) \ atomPositions(t) :
        \A n \in 1..Len(sqlKeywords) :
            KeywordAt(t, i, sqlKeywords[n])
            => SubSeq(<<t[i], nextWord(t, i)>>, 1, Len(sqlKeywords[n]))
                  = sqlKeywords[n]

\* every operator outside the atoms has one space on each side
operatorsSpaced(t) ==
    \A i \in (1..Len(t)) \ atomPositions(t) :
        t[i] \in OpToks =>
            /\ (i > 1 /\ t[i - 1] \notin OpToks) =>
                  (t[i - 1] = SP /\ tokAt(t, i - 2) # SP)
            /\ (i < Len(t) /\ t[i + 1] \notin OpToks) =>
                  (t[i + 1] = SP /\ tokAt(t, i + 2) # SP)

\* C13: in every line of an SQL segment of the output, outside the opaque
\* atoms, every occurrence of a listed keyword is in upper case and every
\* comparison operator has one space on each side.
C13_SqlNormalized ==
    runs >= 1 =>
        \A j \in sqlLines(doc, 1, FALSE) :
            keywordsUpper(text(doc[j])) /\ operatorsSpaced(text(doc[j]))

\* the primary keywords of the indentation rule
PrimaryKeywords ==
    { <<"SELECT">>, <<"FROM">>, <<"WHERE">>, <<"GROUP", "BY">>,
      <<"ORDER", "BY">>, <<"HAVING">>, <<"JOIN">>, <<"LEFT", "JOIN">>,
      <<"RIGHT", "JOIN">>, <<"INNER", "JOIN">>, <<"FULL", "JOIN">>,
      <<"OUTER", "JOIN">>, <<"CROSS", "JOIN">>, <<"UNION">>, <<"LIMIT">> }

startsWithPrimary(t) == \E kw \in PrimaryKeywords : KeywordAt(t, 1, kw)

\* the line of the property that opened the segment of content line j
segmentOpener(lines, segment, j) ==
    CHOOSE p \in 1..(j - 1) :
        p \notin segment /\ \A q \in (p + 1)..(j - 1) : q \in segment

\* the content lines of the segments are at the base depth, one level
\* below the property, or one level deeper
twoTier(lines, segment) ==
    \A j \in segment :
        text(lines[j]) # <<";;">> =>
            lines[j].ind
              = lines[segmentOpener(lines, segment, j)].ind
                  + (IF startsWithPrimary(text(lines[j])) THEN 1 ELSE 2)
                      * IndentSize

\* C14: every content line of an SQL segment of the output that starts
\* with a primary keyword is one level deeper than the property line that
\* opened the segment, every other content line two levels deeper.
C14_SqlTwoTier == runs >= 1 => twoTier(doc, sqlLines(doc, 1, FALSE))

\* the terminator of every segment of several lines is alone on its line,
\* at the depth of the property that opened the segment
terminatorOnOwnLine(lines, segment) ==
    \A j \in segment :
        endsWithTerminator(text(lines[j])) =>
            /\ text(lines[j]) = <<";;">>
            /\ lines[j].ind = lines[segmentOpener(lines, segment, j)].ind

\* the terminator of every segment of one line follows one space
terminatorAfterSpace(lines, segment) ==
    \A j \in (1..Len(lines)) \ segment :
        LET t == text(lines[j])
        IN  (/\ isPropertyLine(t)
             /\ t[1] \in SqlProps \ {"html"}
             /\ endsWithTerminator(t)
             /\ Len(t) >= 3)
            => (t[Len(t) - 1] = SP /\ t[Len(t) - 2] # SP)

terminatorPlaced(lines, segment) ==
    terminatorOnOwnLine(lines, segment) /\ terminatorAfterSpace(lines, segment)

\* C15: in the output the terminator of an SQL segment of several lines is
\* on a line of its own at the depth of the property that opened the
\* segment, and the terminator of a segment of one line follows the
\* content after one space.
C15_TerminatorPlaced ==
    runs >= 1 => terminatorPlaced(doc, sqlLines(doc, 1, FALSE))

\* the number of blocks of lines that are open before line j, the lines of
\* segment apart
depthBefore(lines, segment, j) ==
    Cardinality({p \in (1..(j - 1)) \ segment :
                    isBlockStart(text(lines[p])) /\ ~ isComment(text(lines[p]))})
      - Cardinality({p \in (1..(j - 1)) \ segment : isBlockEnd(text(lines[p]))})

\* the lines of a view that are not in a field: the header, the non-field
\* blocks and properties, the footer
outsideFields(lines, segment) ==
    {j \in (1..Len(lines)) \ segment :
        ~ \E p \in 1..j :
            /\ isFieldOpener(lines[p])
            /\ p \notin segment
            /\ \A r \in (p + 1)..j :
                  depthBefore(lines, segment, r) > depthBefore(lines, segment, p)}

\* the block-opening lines, property lines and closing braces outside the
\* fields are indented by the number of blocks open around them
indentedByNesting(lines, segment) ==
    \A j \in outsideFields(lines, segment) :
        LET t == text(lines[j])
        IN  (/\ ~ isComment(t)
             /\ isBlockStart(t) \/ isBlockEnd(t) \/ isPropertyLine(t))
            => lines[j].ind
                 = IndentSize * (depthBefore(lines, segment, j)
                                   - (IF isBlockEnd(t) THEN 1 ELSE 0))

nestingIn(out) == indentedByNesting(out, continuationLines(out, 1, FALSE))

nestingInViews(views) ==
    \A k \in 1..Len(views) : nestingIn(viewOutputOf(views, k))

\* C16: with grouping or sorting, in the output of every view the
\* block-opening lines, the property lines and the closing braces of the
\* non-field content (outside the segments) are indented by as many indent
\* units as there are blocks open around them.
C16_IndentedByNesting ==
    (runs >= 1 /\ advanced) => nestingInViews(inputViews)

(***************************************************************************)
(* Observations on the scans and on the lint passes.                       *)
(***************************************************************************)
\* the state of each scanner after the first k lines of a text
simpleScan(lines, k) == formatLinesFrom(formatLinesInit, 1, SubSeq(lines, 1, k))

viewScan(lines, k) == parseViewsFrom(parseViewsInit, 1, SubSeq(lines, 1, k))

\* the state of the scan of a field's body after its first k lines
fieldScan(field, k) ==
    fieldContentFrom(
        [out |-> <<>>, nestedIndentLevel |-> field.indent + 1,
         inSqlBlock |-> FALSE],
        [field EXCEPT !.rawContent = SubSeq(@, 1, k)], 2)

\* line k of the text is a closing brace that the scanners meet with an
\* empty block stack
strayBrace(lines, k) ==
    /\ isBlockEnd(trim(lines[k].toks))
    /\ simpleScan(lines, k - 1).blockStack = <<>>
    /\ ~ simpleScan(lines, k - 1).inSqlBlock
    /\ viewScan(lines, k - 1).blockStack = <<>>

\* while the view scan is in a view it holds that view, and the field it
\* refers to is a field of a view it holds
referencesValid(st) ==
    /\ st.inView => st.views # <<>> /\ Last(st.views).endLine = -1
    /\ st.currentField.f # 0 =>
          /\ st.currentField.v \in 1..Len(st.views)
          /\ st.currentField.f \in
                 1..Len(st.views[st.currentField.v].fields)

depthsNeverNegative(lines, views) ==
    /\ \A k \in 0..Len(lines) :
          /\ simpleScan(lines, k).indentLevel >= 0
          /\ viewScan(lines, k).indentLevel >= 0
          /\ referencesValid(viewScan(lines, k))
    /\ \A k \in 1..Len(lines) :
          strayBrace(lines, k) =>
              /\ simpleScan(lines, k).indentLevel = 0
              /\ viewScan(lines, k).indentLevel = 0
              /\ Len(simpleScan(lines, Len(lines)).out) >= Len(lines) - 1
    /\ \A v \in 1..Len(views) : \A f \in 1..Len(views[v].fields) :
          \A k \in 0..Len(views[v].fields[f].rawContent) :
              fieldScan(views[v].fields[f], k).nestedIndentLevel >= 0

\* the edit list is empty or one replacement, no line of which is indented
\* by a negative count
editsReturned ==
    /\ Len(edits) <= 1
    /\ \A e \in 1..Len(edits) : \A k \in 1..Len(edits[e]) :
          edits[e][k].ind >= 0

\* the diagnostics of the last pass are a list of diagnostics of known
\* rules on lines of the text the pass read; without a model of the
\* external parser they are those of the model of the fallback parser
diagnosticsReturned ==
    /\ \A k \in 1..Len(lint.diagnostics) :
          /\ lint.diagnostics[k].code \in ALL_RULES
          /\ lint.diagnostics[k].line \in 0..(Len(lint.text) - 1)
    /\ lint.parser \in {"null", "rejects"} =>
          lint.diagnostics =
              processRulesAndCreateDiagnostics(
                  lint.text, parseLookMLSync(getText(lint.text)),
                  activeRules(lint.rules, lint.disabledRules))

\* C17: no input makes the core fail.  Every run of the formatter returns
\* an edit list and every lint pass returns a diagnostics list, whether the
\* external parser resolves, resolves to null or rejects; during a scan
\* no indentation depth is negative, and a closing brace met with an empty
\* block stack leaves the depth at 0, the scan going on with the next line.
C17_NeverFails ==
    /\ runs >= 1 => editsReturned /\ depthsNeverNegative(prev, inputViews)
    /\ lint.parser # "" => diagnosticsReturned

C17_Witness ==
    /\ runs >= 1
    /\ \E k \in 1..Len(prev) : strayBrace(prev, k)
    /\ lint.parser = "rejects"
    /\ lint.text = prev
    /\ lint.diagnostics # <<>>

\* the model of the fallback parser for the text the last pass read
fallbackModel == parseLookMLSync(getText(lint.text))

\* line k of a text opens a block of a keyword: keyword: name {
opensBlock(lines, k, keywords) ==
    /\ tokAt(lines[k].toks, 1) \in keywords
    /\ opensAt(lines[k].toks, 1, lines[k].toks[1])
    /\ Last(trimEnd(lines[k].toks)) = "{"

openedName(lines, k) == lines[k].toks[nameIndex(lines[k].toks, 1)]

\* the line that opens the view around line k, 0 if none
viewAround(lines, k) ==
    greatest({v \in 1..(k - 1) : opensBlock(lines, v, {"view"})})

fieldsOfType(view, keyword) ==
    view.fields[CHOOSE t \in 1..4 : FieldTypes[t] = keyword]

\* the model holds every view and every field that a line of the text opens
exposesOpened(data, lines) ==
    \A k \in 1..Len(lines) :
        /\ opensBlock(lines, k, {"view"}) =>
               openedName(lines, k) \in names(data.views)
        /\ (opensBlock(lines, k, FieldKeywords) /\ viewAround(lines, k) # 0) =>
               /\ openedName(lines, viewAround(lines, k)) \in names(data.views)
               /\ openedName(lines, k) \in
                      names(fieldsOfType(
                                get(data.views,
                                    openedName(lines, viewAround(lines, k))),
                                lines[k].toks[1]))

\* C18: degraded parsing keeps what was opened.  The model the fallback
\* parser builds exposes every view and every field whose opening line
\* occurs in the text, also a field or a view that is never closed.
C18_OpenedExposed ==
    lint.parser \in {"null", "rejects"} => exposesOpened(fallbackModel, lint.text)

(***************************************************************************)
(* The declarations of a well-formed text, read line by line with the      *)
(* braces counted: the reference the model of the fallback parser is       *)
(* compared with.  A text is well formed when each of its lines is a       *)
(* comment, blank, a closing brace, a block opener  keyword: name {  or    *)
(* keyword: {  or a property, its braces match, and each SQL property ends *)
(* with its terminator on its line.                                        *)
(***************************************************************************)
code(lines, k) ==
    IF isComment(lines[k].toks) THEN <<>> ELSE trimEnd(lines[k].toks)

opens(lines, k) == code(lines, k) # <<>> /\ Last(code(lines, k)) = "{"

closes(lines, k) == code(lines, k) = <<"}">>

\* the number of blocks open before line k
openBefore(lines, k) ==
    Cardinality({j \in 1..(k - 1) : opens(lines, j)})
        - Cardinality({j \in 1..(k - 1) : closes(lines, j)})

\* the line that opens the block line k is in, 0 at top level
parentOf(lines, k) ==
    greatest({j \in 1..(k - 1) :
                 opens(lines, j)
                     /\ openBefore(lines, j) = openBefore(lines, k) - 1})

isProperty(lines, k) ==
    /\ Len(code(lines, k)) >= 3
    /\ isName(code(lines, k)[1])
    /\ code(lines, k)[2] = ":"
    /\ ~ opens(lines, k)

wellFormed(lines) ==
    /\ \A k \in 1..Len(lines) :
          /\ openBefore(lines, k + 1) >= 0
          /\ code(lines, k) = <<>> \/ closes(lines, k) \/ isProperty(lines, k)
                \/ (opens(lines, k) /\ code(lines, k)[2] = ":"
                       /\ (opensBlock(lines, k, {code(lines, k)[1]})
                              \/ SubSeq(code(lines, k), 3, Len(code(lines, k)))
                                     = <<SP, "{">>))
          /\ (isProperty(lines, k)
                 /\ code(lines, k)[1] \in {"sql", "html", "sql_on"}) =>
                Last(code(lines, k)) = ";;"
    /\ openBefore(lines, Len(lines) + 1) = 0

\* the value of the property of a name that block b declares itself, as
\* an optional text: <<>> when the block has no such property
ownProperty(lines, b, name) ==
    IF \E k \in 1..Len(lines) :
          isProperty(lines, k) /\ parentOf(lines, k) = b
              /\ code(lines, k)[1] = name
    THEN << trim(SubSeq(
               code(lines, least({k \in 1..Len(lines) :
                                     isProperty(lines, k)
                                         /\ parentOf(lines, k) = b
                                         /\ code(lines, k)[1] = name})),
               3,
               Len(code(lines, least({k \in 1..Len(lines) :
                                         isProperty(lines, k)
                                             /\ parentOf(lines, k) = b
                                             /\ code(lines, k)[1] = name})))))
         >>
    ELSE <<>>

ownPrimaryKey(lines, b) ==
    IF ownProperty(lines, b, "primary_key") = <<>> THEN <<>>
    ELSE << ownProperty(lines, b, "primary_key")[1] \in {<<"yes">>, <<"true">>} >>

\* the lines that declare a block of a keyword directly in block p (0 for
\* the top level)
declaredIn(lines, p, keywords) ==
    {k \in 1..Len(lines) :
        opensBlock(lines, k, keywords) /\ parentOf(lines, k) = p}

\* the parsed field carries what the field declared at line k declares
carriesOwn(field, lines, k) ==
    /\ field.type = ownProperty(lines, k, "type")
    /\ field.sql = ownProperty(lines, k, "sql")
    /\ field.html = ownProperty(lines, k, "html")
    /\ field.primary_key = ownPrimaryKey(lines, k)

viewComplete(view, lines, v) ==
    \A t \in 1..4 :
        /\ names(view.fields[t])
               = {openedName(lines, k) : k \in declaredIn(lines, v, {FieldTypes[t]})}
        /\ \A k \in declaredIn(lines, v, {FieldTypes[t]}) :
               carriesOwn(get(view.fields[t], openedName(lines, k)), lines, k)

exploreComplete(explore, lines, e) ==
    /\ names(explore.joins)
           = {openedName(lines, k) : k \in declaredIn(lines, e, {"join"})}
    /\ \A k \in declaredIn(lines, e, {"join"}) :
           get(explore.joins, openedName(lines, k)).sql_on
               = ownProperty(lines, k, "sql_on")

completeAndPrecise(data, lines) ==
    /\ names(data.views)
           = {openedName(lines, k) : k \in declaredIn(lines, 0, {"view"})}
    /\ \A v \in declaredIn(lines, 0, {"view"}) :
           viewComplete(get(data.views, openedName(lines, v)), lines, v)
    /\ names(data.explores)
           = {openedName(lines, k) : k \in declaredIn(lines, 0, {"explore"})}
    /\ \A e \in declaredIn(lines, 0, {"explore"}) :
           exploreComplete(get(data.explores, openedName(lines, e)), lines, e)

\* C19: the fallback parser is complete and precise on well-formed input.
\* Its model holds exactly the declared views, in each view exactly the
\* declared dimensions, dimension groups, measures and filters, each with
\* its own type, sql, html and primary_key, and exactly the declared
\* explores, each with exactly its joins and their own sql_on.
C19_CompleteAndPrecise ==
    (lint.parser \in {"null", "rejects"} /\ wellFormed(lint.text)) =>
        completeAndPrecise(fallbackModel, lint.text)

\* the model the last pass applied the rules to
usedModel == lookmlData(lint.text, lint.parser, lint.external)

\* the rules the settings select: enabled, not disabled, and known
selectedRules ==
    {id \in ALL_RULES :
        includes(lint.rules, id) /\ ~ includes(lint.disabledRules, id)}

reported(violations) ==
    {[code |-> violations[k].ruleId, message |-> violations[k].message] :
        k \in 1..Len(violations)}

returnedViolations ==
    {[code |-> lint.diagnostics[k].code,
      message |-> lint.diagnostics[k].message] :
        k \in 1..Len(lint.diagnostics)}

\* the number of violations the selected rules return one by one
RECURSIVE countOf(_, _)
countOf(ids, data) ==
    IF ids = {} THEN 0
    ELSE Len(check(CHOOSE id \in ids : TRUE, data))
             + countOf(ids \ {CHOOSE id \in ids : TRUE}, data)

noRepeat(s) == \A i, j \in 1..Len(s) : s[i] = s[j] => i = j

rulesExact(data) ==
    /\ \A k \in 1..Len(lint.diagnostics) :
          lint.diagnostics[k].code \in selectedRules
    /\ \A id \in selectedRules :
          reported(check(id, data)) \subseteq returnedViolations
    /\ returnedViolations
           = UNION {reported(check(id, data)) : id \in selectedRules}
    /\ noRepeat(lint.rules) =>
          Len(lint.diagnostics) = countOf(selectedRules, data)

\* C20: rule selection is exact.  The violations a lint pass returns are
\* those of the rules that are enabled and not disabled: none carries the
\* id of another rule, an unknown id contributes nothing and does not keep
\* the known rules from running, and every violation of every selected
\* rule is returned whatever the other rules returned.
C20_RulesExact == lint.parser # "" => rulesExact(usedModel)

\* a pass under settings that name an unknown rule before a known one,
\* with one selected rule that returns violations and another rule that
\* would return violations but is disabled
C20_Witness ==
    /\ lint.parser # ""
    /\ \E i, j \in 1..Len(lint.rules) :
          i < j /\ lint.rules[i] \notin ALL_RULES /\ lint.rules[j] \in selectedRules
    /\ lint.diagnostics # <<>>
    /\ \E id \in ALL_RULES \ selectedRules :
          includes(lint.rules, id) /\ check(id, usedModel) # <<>>

\* the ids applyRules evaluates, in the order of the setting
evaluatedRules == rulesToApply(activeRules(lint.rules, lint.disabledRules))

\* the diagnostics that carry the id of a rule
diagnosticsWithCode(id) ==
    SelectSeq(lint.diagnostics, LAMBDA diagnostic : diagnostic.code = id)

\* what the rule computes for the joins that precede the throwing one
violationsBeforeThrow(lookml) ==
    concat([e \in 1..Len(lookml.explores) |->
               concat([j \in 1..Len(lookml.explores[e].joins) |->
                          IF joinThrows(lookml.explores[e].joins[j]) THEN <<>>
                          ELSE joinReferencesOf(lookml.explores[e].name,
                                                lookml.explores[e].joins[j])])])

failuresIsolated(data) ==
    /\ diagnosticsReturned
    /\ \A k \in 1..Len(evaluatedRules) :
          IF checkThrows(evaluatedRules[k], data)
          THEN diagnosticsWithCode(evaluatedRules[k]) = <<>>
          ELSE /\ reported(check(evaluatedRules[k], data))
                     \subseteq returnedViolations
               /\ noRepeat(lint.rules) =>
                     Len(diagnosticsWithCode(evaluatedRules[k]))
                         = Len(check(evaluatedRules[k], data))

\* C21: rule failures are isolated.  When the check of one active rule
\* throws, applyRules still evaluates every other active rule, those that
\* come after it included, and returns all of their violations; the rule
\* that threw contributes no violation, not even those it had computed
\* before it threw; and the pass returns its diagnostics.
C21_FailuresIsolated == lint.parser # "" => failuresIsolated(usedModel)

\* a pass in which a rule throws after it computed a violation, between a
\* rule that returns violations and another rule that returns violations
C21_Witness ==
    /\ lint.parser = "resolves"
    /\ \E i, j, k \in 1..Len(evaluatedRules) :
          /\ i < j /\ j < k
          /\ checkThrows(evaluatedRules[j], usedModel)
          /\ evaluatedRules[j] = "e1"
          /\ violationsBeforeThrow(usedModel) # <<>>
          /\ diagnosticsWithCode(evaluatedRules[i]) # <<>>
          /\ diagnosticsWithCode(evaluatedRules[k]) # <<>>

\* the diagnostics of a rule, as the messages of its violations
messagesOf(id) ==
    {lint.diagnostics[k].message :
        k \in {i \in 1..Len(lint.diagnostics) : lint.diagnostics[i].code = id}}

hasTable(view) ==
    view.derived_table # <<>>
        \/ (view.sql_table_name # <<>> /\ view.sql_table_name[1] # <<>>)

keysOf(view) ==
    {view.fields[1][k].name :
        k \in {i \in 1..Len(view.fields[1]) :
                  view.fields[1][i].primary_key = <<TRUE>>}}

\* ^pk\d*$, case-insensitively, on the names of the documents
followsConvention(name) == name \in {"pk", "PK", "pk1"}

keyViolations(view) ==
    IF ~ hasTable(view) THEN {}
    ELSE IF keysOf(view) = {} THEN {<<"missing primary key", view.name>>}
    ELSE {<<"naming convention", name, view.name>> :
             name \in {n \in keysOf(view) : ~ followsConvention(n)}}

primaryKeysExact(data) ==
    /\ messagesOf("k1")
           = UNION {keyViolations(data.views[k]) : k \in 1..Len(data.views)}
    /\ Len(diagnosticsWithCode("k1")) = Cardinality(messagesOf("k1"))

\* C22: rule K1 is exact.  For each view of the model that has a table
\* name or a derived table it returns one violation when no dimension of
\* the view is a primary key, otherwise one violation for each primary-key
\* dimension whose name is not pk followed by digits, in any case; for a
\* view with neither it returns none; and it returns nothing else.
C22_PrimaryKeysExact == lint.parser # "" => primaryKeysExact(usedModel)

\* a pass on a view with a table and two primary keys, one named by the
\* convention and one not, that returned the one violation
C22_Witness ==
    /\ lint.parser # ""
    /\ \E k \in 1..Len(usedModel.views) :
          /\ hasTable(usedModel.views[k])
          /\ \E a, b \in keysOf(usedModel.views[k]) :
                followsConvention(a) /\ ~ followsConvention(b)
    /\ Len(diagnosticsWithCode("k1")) = 1

\* Reference reader for E1: the spans ${...}, {{...}} and {%...%} of a
\* text, as the set of the indices of their tokens
spanOpen(s, j) == s[j] \in {"${", "{{", "{%"}

spanClose(s, j) == s[j] \in {"}", "}}", "%}"}

inSpan(s, i) ==
    \E a \in 1..i :
        /\ spanOpen(s, a)
        /\ \A c \in a..(i - 1) : ~ spanClose(s, c)

\* the indices where a bare reference identifier.identifier starts: a name
\* outside the spans that a dot and a name follow and no dot precedes
bareReferences(s) ==
    {i \in 1..Len(s) :
        /\ isName(s[i]) /\ tokAt(s, i + 1) = "." /\ isName(tokAt(s, i + 2))
        /\ tokAt(s, i - 1) # "."
        /\ ~ inSpan(s, i)}

unsafeReferences(s) == {i \in bareReferences(s) : s[i] # "safe"}

joinsOf(data) ==
    UNION {{<<e, j>> : j \in 1..Len(data.explores[e].joins)} :
              e \in 1..Len(data.explores)}

RECURSIVE referenceCount(_, _)
referenceCount(data, joins) ==
    IF joins = {} THEN 0
    ELSE LET p == CHOOSE q \in joins : TRUE
             join == data.explores[p[1]].joins[p[2]]
         IN  (IF truthy(join.sql_on)
              THEN Cardinality(unsafeReferences(join.sql_on[1])) ELSE 0)
                 + referenceCount(data, joins \ {p})

referencesCounted(data) ==
    Len(diagnosticsWithCode("e1")) = referenceCount(data, joinsOf(data))

\* C23: rule E1 counts bare references one by one.  For every join, after
\* the spans ${...}, {{...}} and {%...%} are removed from sql_on, it
\* returns one violation for each identifier.identifier reference that
\* does not start with safe. and none for one that does, whatever
\* separates the references: an operator, spaces, AND.
C23_ReferencesCounted ==
    (lint.parser # "" /\ ~ checkThrows("e1", usedModel))
        => referencesCounted(usedModel)

\* Reference reader for F1: the indices of a text where a ${view.field}
\* occurs whose view is neither the given one nor TABLE
occurrencesIn(sql, viewName) ==
    {i \in 1..Len(sql) :
        /\ sql[i] = "${"
        /\ isName(tokAt(sql, i + 1)) /\ tokAt(sql, i + 2) = "."
        /\ isName(tokAt(sql, i + 3)) /\ tokAt(sql, i + 4) \in {"}", "}}"}
        /\ sql[i + 1] \notin {viewName, "TABLE"}}

partOf(field, part) == IF part = "sql" THEN field.sql ELSE field.html

\* the occurrences in one part of the fields of the views with a table, as
\* <<view, field type, field, index>>
crossOccurrences(data, part) ==
    UNION {UNION {UNION {{<<v, t, f, i>> :
                            i \in IF truthy(partOf(data.views[v].fields[t][f],
                                                   part))
                                  THEN occurrencesIn(
                                           partOf(data.views[v].fields[t][f],
                                                  part)[1],
                                           data.views[v].name)
                                  ELSE {}} :
                        f \in 1..Len(data.views[v].fields[t])} :
                  t \in 1..4} :
           v \in {k \in 1..Len(data.views) : hasTable(data.views[k])}}

occurrenceMessage(data, part, o) ==
    <<"references another view", part, FieldTypes[o[2]],
      data.views[o[1]].fields[o[2]][o[3]].name, data.views[o[1]].name,
      SubSeq(partOf(data.views[o[1]].fields[o[2]][o[3]], part)[1],
             o[4] + 1, o[4] + 3)>>

diagnosticsOfPart(part) ==
    SelectSeq(diagnosticsWithCode("f1"),
              LAMBDA diagnostic : diagnostic.message[2] = part)

crossReferencesExact(data) ==
    /\ \A part \in {"sql", "html"} :
          /\ Len(diagnosticsOfPart(part))
                 = Cardinality(crossOccurrences(data, part))
          /\ \A o \in crossOccurrences(data, part) :
                occurrenceMessage(data, part, o) \in messagesOf("f1")
    /\ Len(diagnosticsWithCode("f1"))
           = Len(diagnosticsOfPart("sql")) + Len(diagnosticsOfPart("html"))

\* C24: rule F1 is exact.  It returns one violation for each ${view.field}
\* occurrence in the sql or html of a dimension, dimension group, measure
\* or filter of a view with a table, where view is neither the name of
\* the containing view nor TABLE; references to the own view or to TABLE
\* and fields of views without a table yield none; and a violation found
\* in html has a message different from one found in sql.
C24_CrossReferencesExact ==
    lint.parser # "" => crossReferencesExact(usedModel)

\* a pass on a view with a table whose fields refer to another view twice
\* in sql and once in html, and to the own view or to TABLE
C24_Witness ==
    /\ lint.parser # ""
    /\ Len(diagnosticsOfPart("sql")) >= 2
    /\ Len(diagnosticsOfPart("html")) >= 1
    /\ \E v \in 1..Len(usedModel.views) :
          \E t \in 1..4 :
              \E f \in 1..Len(usedModel.views[v].fields[t]) :
                  /\ truthy(usedModel.views[v].fields[t][f].sql)
                  /\ \/ includes(usedModel.views[v].fields[t][f].sql[1],
                                  "TABLE")
                     \/ includes(usedModel.views[v].fields[t][f].sql[1],
                                  usedModel.views[v].name)

\* the lines of a text that equal or end with ;;
terminatorLines(lines) ==
    {k \in 1..Len(lines) : endsWithTerminator(trim(lines[k].toks))}

closedInFields(views) ==
    \A v \in 1..Len(views) : \A f \in 1..Len(views[v].fields) :
        \A k \in 2..Len(views[v].fields[f].rawContent) :
            endsWithTerminator(trim(views[v].fields[f].rawContent[k]))
                => ~ fieldScan(views[v].fields[f], k).inSqlBlock

\* C25: a SQL segment closes on its terminator.  In each line scanner
\* (formatLines, parseViews, addFormattedFieldContent) no SQL segment is
\* open after a line that equals or ends with ;;, the line of a one-line
\* SQL property included.
C25_ClosesOnTerminator ==
    runs >= 1 =>
        /\ \A k \in terminatorLines(prev) :
              /\ ~ simpleScan(prev, k).inSqlBlock
              /\ ~ viewScan(prev, k).inSqlBlock
        /\ closedInFields(inputViews)

\* Lines j..k of a text hold no terminator: a segment that line j opens is
\* unterminated up to line k
unterminated(lines, j, k) ==
    \A i \in j..k : ~ endsWithTerminator(trim(lines[i].toks))

\* the simple scan is in an unterminated segment after line k, and the
\* block that holds the opening property is closed
openAfterBlockSimple(lines, k) ==
    /\ simpleScan(lines, k).inSqlBlock
    /\ simpleScan(lines, k).indentLevel < simpleScan(lines, k).sqlBlockIndent
    /\ \E j \in 1..k :
          /\ ~ simpleScan(lines, j - 1).inSqlBlock
          /\ \A i \in j..k : simpleScan(lines, i).inSqlBlock
          /\ unterminated(lines, j, k)

openAfterBlockView(lines, k) ==
    /\ viewScan(lines, k).inSqlBlock
    /\ viewScan(lines, k).indentLevel < viewScan(lines, k).sqlBlockIndent
    /\ \E j \in 1..k :
          /\ ~ viewScan(lines, j - 1).inSqlBlock
          /\ \A i \in j..k : viewScan(lines, i).inSqlBlock
          /\ unterminated(lines, j, k)

openAfterBlockField(views) ==
    \E v \in 1..Len(views) : \E f \in 1..Len(views[v].fields) :
        \E k \in 2..Len(views[v].fields[f].rawContent) :
            /\ isBlockEnd(trim(views[v].fields[f].rawContent[k]))
            /\ fieldScan(views[v].fields[f], k).inSqlBlock

\* C26: an unterminated SQL segment is recovered locally.  Once the block
\* that holds the opening property of the segment is closed by its brace,
\* the scanner that formats the text is no longer in SQL state: formatLines
\* in the simple mode, parseViews and addFormattedFieldContent otherwise.
C26_RecoveredLocally ==
    runs >= 1 =>
        IF advanced
        THEN /\ \A k \in 1..Len(prev) : ~ openAfterBlockView(prev, k)
             /\ ~ openAfterBlockField(inputViews)
        ELSE \A k \in 1..Len(prev) : ~ openAfterBlockSimple(prev, k)

\* the comment lines that immediately precede line s of a text, with no
\* other line in between
leadingComments(lines, s) ==
    LET first == least({j \in 1..s :
                          \A i \in j..(s - 1) : isComment(text(lines[i]))})
    IN  [k \in 1..(s - first) |-> text(lines[first + k - 1])]

\* the field is in the output with the comments c directly above it
emittedAbove(out, field, c) ==
    \E p \in 1..Len(out) :
        /\ isFieldOpener(out[p])
        /\ blockHeader(text(out[p])).type = field.type
        /\ blockHeader(text(out[p])).name = field.name
        /\ p > Len(c)
        /\ \A k \in 1..Len(c) : text(out[p - Len(c) + k - 1]) = c[k]

\* the lines of a view outside its fields
betweenFields(view) ==
    {i \in (view.startLine + 1)..(view.endLine - 1) :
        \A f \in 1..Len(view.fields) :
            i < view.fields[f].startLine \/ i > view.fields[f].endLine}

commentsAttached(views) ==
    \A v \in 1..Len(views) :
        /\ \A f \in 1..Len(views[v].fields) :
              /\ views[v].fields[f].comments
                     = leadingComments(prev, views[v].fields[f].startLine)
              /\ emittedAbove(viewOutputOf(views, v), views[v].fields[f],
                              leadingComments(prev,
                                              views[v].fields[f].startLine))
        /\ \A i \in betweenFields(views[v]) :
              (isComment(text(prev[i])) /\ ~ isComment(text(prev[i + 1]))
               /\ ~ isFieldOpener(prev[i + 1]))
                  => \A p \in 1..(Len(viewOutputOf(views, v)) - 1) :
                        text(viewOutputOf(views, v)[p]) = text(prev[i])
                            => ~ isFieldOpener(viewOutputOf(views, v)[p + 1])

\* C27: comment attachment.  Inside a view a comment line is a leading
\* comment of a field if and only if it immediately precedes the opening
\* line of the field, with no blank line in between; an attached comment
\* is emitted directly above its field wherever the field is moved, for
\* every field of the view, the first one included; a comment that a blank
\* line separates from the next field is not emitted above that field.
C27_CommentsAttached == (runs = 1 /\ advanced) => commentsAttached(inputViews)

\* Reference reading of the fields of a text by its braces: the line of
\* the closing brace that matches the block opened at line p, 0 if none
matchingClose(lines, p) ==
    least({q \in (p + 1)..Len(lines) :
              /\ isBlockEnd(text(lines[q]))
              /\ depthBefore(lines, {}, q + 1) = depthBefore(lines, {}, p)})

\* the field openers of a view that are directly in the view
openersIn(lines, first, last) ==
    SelectSeq([k \in 1..(last - first - 1) |-> first + k],
              LAMBDA p : /\ isFieldOpener(lines[p])
                         /\ depthBefore(lines, {}, p)
                                = depthBefore(lines, {}, first) + 1)

\* the lines first..last that are neither blank nor comments
bodyOf(lines, first, last) ==
    SelectSeq(SubSeq(lines, first, last),
              LAMBDA l : text(l) # <<>> /\ ~ isComment(text(l)))

\* a line without its blanks and in upper case: what formatting keeps
lineKey(t) ==
    [k \in 1..Len(SelectSeq(t, LAMBDA tok : tok # SP)) |->
        toUpperCase(SelectSeq(t, LAMBDA tok : tok # SP)[k])]

keysOfLines(lines) == [k \in 1..Len(lines) |-> lineKey(text(lines[k]))]

\* a field captures the lines from its opening line to its matching brace
capturedExactly(lines, view) ==
    /\ Len(view.fields) = Len(openersIn(lines, view.startLine, view.endLine))
    /\ \A f \in 1..Len(view.fields) :
          /\ view.fields[f].startLine
                 = openersIn(lines, view.startLine, view.endLine)[f]
          /\ view.fields[f].endLine
                 = matchingClose(lines, view.fields[f].startLine)
          /\ view.fields[f].rawContent
                 = [k \in 1..Len(bodyOf(lines, view.fields[f].startLine,
                                        view.fields[f].endLine)) |->
                       text(bodyOf(lines, view.fields[f].startLine,
                                   view.fields[f].endLine)[k])]

\* every field is in the output as one block that holds its lines, and
\* only them, in the order of the source
emittedWhole(lines, view, out) ==
    /\ Len(openersIn(out, 1, Len(out))) = Len(view.fields)
    /\ \A p \in 1..Len(openersIn(out, 1, Len(out))) :
          matchingClose(out, openersIn(out, 1, Len(out))[p]) # 0
    /\ \A f \in 1..Len(view.fields) :
          \E p \in 1..Len(openersIn(out, 1, Len(out))) :
              keysOfLines(bodyOf(out, openersIn(out, 1, Len(out))[p],
                                 matchingClose(out,
                                     openersIn(out, 1, Len(out))[p])))
                  = keysOfLines(bodyOf(lines, view.fields[f].startLine,
                                       view.fields[f].endLine))

fieldsWhole(views) ==
    \A v \in 1..Len(views) :
        /\ capturedExactly(prev, views[v])
        /\ emittedWhole(prev, views[v], viewOutputOf(views, v))

currentDiagnostics ==
    getLookMLDiagnostics(doc, lint.rules, lint.disabledRules, "null",
                         EmptyModel)

\* C29: diagnostics are never stale.  Once every lint run has completed,
\* the diagnostics stored for the document, while linting is on, are those
\* computed from its latest content, whatever the order in which the runs
\* completed.
C29_NeverStale ==
    (linter.enabled /\ linter.pending = <<>> /\ linter.collection # <<>>)
        => linter.collection[1] = currentDiagnostics

\* C30: a disabled linter shows nothing.  Whenever lookml.linter.enabled is
\* false and no lint run is in flight, the diagnostic collection holds no
\* entry for the document.
C30_DisabledShowsNothing ==
    (~ linter.enabled /\ linter.pending = <<>>) => linter.collection = <<>>

====
